---- MODULE Spec2Model ----
(***************************************************************************)
(* Supervised worker-pool lifecycle and call-proxy protocol of              *)
(* wasm-worker-threads.                                                     *)
(*                                                                          *)
(* Part I  : the withThreadPool runner (workers.cjs, threadpool-runner.cjs).*)
(* Part II : ThreadpoolManager, proxy variant (unnamed/part_010), together  *)
(*           with the ThreadPoolHost it supervises (patch-env.js 36-164).   *)
(* Part III: the initialization of the pool inside a ThreadPoolHost         *)
(*           (patch-env.js 65-83 and startWorkers, 116-153).                *)
(* Part IV : ThreadpoolManager, grace-period variant (unnamed/part_009      *)
(*           from line 69): awaitPoolReady with its initialization bound    *)
(*           and shutdown with its grace period.                            *)
(* Part V  : the rest of the life of a ThreadPoolHost and of its pool       *)
(*           workers: the ports handed to the workers, the heartbeat        *)
(*           interval, 'terminate' (patch-env.js 60-63, 71-104, 116-153)    *)
(*           and the attach call of a worker (threadpool-worker.cjs).       *)
(***************************************************************************)
EXTENDS Integers, Sequences, FiniteSets, TLC

(***************************************************************************)
(* Bounds                                                                   *)
(***************************************************************************)
NumCallers == 3

Callers == 1..NumCallers
\* every initThreadPool / exitThreadPool promise is created by one caller
Promises == 1..NumCallers

NumExec == 3        \* execute(fn) calls
MaxReq == 2         \* proxied requests issued
MaxOutbox == 2      \* host messages in flight
Timeout == 2        \* options.timeout, in poll intervals
NumWorkers == 2     \* options.numWorkers
MaxHeartbeats == 2  \* heartbeat messages of a host that are followed
MaxShutdowns == 3   \* shutdown() calls of the grace-period variant

Execs == 1..NumExec
\* every ThreadPoolHost is spawned by one execute call
Hosts == 1..NumExec
CallIds == 1..MaxReq

(***************************************************************************)
(* Part I : withThreadPool                                                  *)
(***************************************************************************)
VARIABLES
    state,          \* state.type
    stateInit,      \* state.initPromise (0: the state object has none)
    stateExit,      \* state.exitPromise (0: the state object has none)
    isNeededBy,     \* isNeededBy (workers.cjs) / callers (threadpool-runner.cjs)
    rpc,            \* position of each withThreadPool(run) call
    rawait,         \* the promise a suspended call awaits
    initP,          \* status of each promise returned for initThreadPool
    initChain,      \* exit promise an init promise is chained on (0: none)
    exitP,          \* status of each promise returned by exitThreadPool
    rrun,           \* how run() settled for each call: none, returned or threw
    rres,           \* how each withThreadPool(run) promise settled: none, value, error, bug or initError
    runnerRes       \* the same for the runner of threadpool-runner.cjs; undefined when it resolved without a value

rvars == <<state, stateInit, stateExit, isNeededBy, rpc, rawait, initP, initChain, exitP,
           rrun, rres, runnerRes>>

(***************************************************************************)
(* Part II : ThreadpoolManager (proxy variant) and ThreadPoolHost           *)
(***************************************************************************)
VARIABLES
    \* --- ThreadpoolManager fields
    poolState,              \* this.poolState
    threadPoolHostWorker,   \* this.threadPoolHostWorker (0: null)
    sinceHeartbeat,         \* Date.now() - this.lastHeartbeat, in poll intervals, saturating above timeout
    heartbeatMonitor,       \* this.heartbeatMonitor holds a live interval
    leakedMonitor,          \* an interval was overwritten in this.heartbeatMonitor without being cleared
    workerChannels,         \* number of channels in this.workerChannels
    pendingWasmRequests,    \* keys of this.pendingWasmRequests
    nextRequestId,          \* this.nextRequestId
    initPromise,            \* this.initPromise, named by the host its initThreadPool() spawned (0: null)
    exitPromise,            \* this.exitPromise (see ShutdownPromise; 0: null)
    poolReadyResolve,       \* this.poolReadyResolve, named by the init promise it resolves (0: null)
    globalProxy,            \* global.__wasmProxy is the manager's proxy
    \* --- promises and event listeners
    initResolved,           \* init promises that have resolved
    shutdownWaits,          \* hosts with a once('exit') listener registered by shutdown()
    exitEmitted,            \* hosts whose 'exit' event has been emitted
    \* --- execute(fn) calls
    pc,                     \* position of each execute(fn) call
    awaits,                 \* the promise a suspended execute call awaits
    \* --- proxied requests (the promises returned by the proxy)
    req,                    \* per callId: status, host posted to, function, argument, settled value
    issued,                 \* the callIds allocated so far, in allocation order
    \* --- the manager's process
    managerThrew,           \* a manager callback threw an uncaught exception
    \* --- ThreadPoolHost workers
    hst,                    \* each host worker thread: unspawned, alive, hung or exited
    hinit,                  \* the host's initPool handling: none, inflight or ready (poolReady posted)
    hterm,                  \* the host is handling terminate
    inbox,                  \* messages posted to the host, not yet handled by it
    outbox,                 \* messages posted by the host, not yet handled by the manager
    executing,              \* wasmCall messages the host is executing
    terminatesPosted,       \* 'terminate' messages posted to the host while it could take them (2: two or more)
    \* --- observation
    sinceTimeout            \* poll intervals since the monitor reported a timeout (-1: never), saturating at 1

mvars == <<poolState, threadPoolHostWorker, sinceHeartbeat, heartbeatMonitor, leakedMonitor,
           workerChannels, pendingWasmRequests, nextRequestId, initPromise, exitPromise,
           poolReadyResolve, globalProxy, initResolved, shutdownWaits, exitEmitted, pc, awaits,
           req, issued, managerThrew, hst, hinit, hterm, inbox, outbox, executing,
           terminatesPosted, sinceTimeout>>

(***************************************************************************)
(* Part III: state of the pool initialization of each ThreadPoolHost        *)
(***************************************************************************)
VARIABLES
    hostPc,             \* the 'initPool' handler of each host: idle, engine (awaiting
                        \* wasm.initThreadPool), workers (awaiting workersReady), posted
    engineInit,         \* the promise of wasm.initThreadPool(): none, called, resolved
    startWorkersPc,     \* startWorkers(): none, waiting (in Promise.all), built
    wasmWorkers,        \* per host and pool worker: unspawned, spawned, readySent, done
    built,              \* builder.build() has been called
    workersReady,       \* the workersReady promise has been resolved
    poolReadySent       \* number of poolReady messages the host has posted

ivars == <<hostPc, engineInit, startWorkersPc, wasmWorkers, built, workersReady, poolReadySent>>

(***************************************************************************)
(* Part IV: state of the grace-period ThreadpoolManager (part_009); the     *)
(* names of its fields are prefixed with g                                  *)
(***************************************************************************)
VARIABLES
    gPoolState,             \* this.poolState
    gThreadPoolHostWorker,  \* this.threadPoolHostWorker: a host, or 0 for null
    gPendingRequests,       \* keys of this.pendingRequests (one request per execute call)
    gInitPromise,           \* this.initPromise: the initialization (named by its host), 0 for null
    gExitPromise,           \* this.exitPromise: the shutdown() call, 0 for null
    gInitP,                 \* per initialization: none, pending, fulfilled, rejected
    gInitTimer,             \* per initialization, the 10 s timer of awaitPoolReady: none, armed, cleared, fired
    gShutdowns,             \* per shutdown() call: its race, its target and its 2 s timer
    gPc,                    \* per execute call: idle, awaitInit, awaitExit, request, done, failed
    gAwaits,                \* the initialization or shutdown an execute call awaits
    gHst,                   \* per host: unspawned, alive, exited
    gExecuting,             \* per host: the requests it has been sent and not answered
    gTerminatePosted,       \* hosts that have been posted 'terminate'
    gForced,                \* hosts that were ended by worker.terminate()
    gThrew                  \* an uncaught exception ended the process: no, result, initTimeout

gvars == <<gPoolState, gThreadPoolHostWorker, gPendingRequests, gInitPromise, gExitPromise,
           gInitP, gInitTimer, gShutdowns, gPc, gAwaits, gHst, gExecuting, gTerminatePosted,
           gForced, gThrew>>

(***************************************************************************)
(* Part V: state of a ThreadPoolHost beyond its first initialization, and   *)
(* of its pool workers                                                      *)
(***************************************************************************)
VARIABLES
    workerPorts,            \* per host: msg.ports as stored by the 'initPool' handler (channel ids)
    mainThreadPort,         \* per host and pool worker: workerData.mainThreadPort (0: not spawned)
    workersReadyResolve,    \* per host: the 'initPool' handling whose workersReady promise it resolves (0: undefined)
    engineInitCalls,        \* per host: calls of wasm.initThreadPool made so far
    workerPc,               \* per pool worker, after its ready message: none, rayon (inside
                            \* wbg_rayon_start_worker), exited
    workerPosts,            \* per pool worker: the messages it has posted, in order, each with its port
    termPc,                 \* per host, the 'terminate' handler: none, exiting (awaiting
                            \* wasm.exitThreadPool), exited (process.exit(0))
    engineExit,             \* per host, the promise of wasm.exitThreadPool(): none, called, resolved
    heartbeatsPosted        \* per host: heartbeat messages posted so far

hvars == <<workerPorts, mainThreadPort, workersReadyResolve, engineInitCalls, workerPc,
           workerPosts, termPc, engineExit, heartbeatsPosted>>

\* the variables of the parts that the runner and the manager do not touch
ovars == <<ivars, gvars, hvars>>

vars == <<rvars, mvars, ovars>>

RInit ==
    /\ state = "none"
    /\ stateInit = 0
    /\ stateExit = 0
    /\ isNeededBy = 0
    /\ rpc = [c \in Callers |-> "idle"]
    /\ rawait = [c \in Callers |-> 0]
    /\ initP = [p \in Promises |-> "unused"]
    /\ initChain = [p \in Promises |-> 0]
    /\ exitP = [p \in Promises |-> "unused"]
    /\ rrun = [c \in Callers |-> "none"]
    /\ rres = [c \in Callers |-> "none"]
    /\ runnerRes = [c \in Callers |-> "none"]

\* number of exitThreadPool() invocations so far
ExitCalls == Cardinality({e \in Promises : exitP[e] # "unused"})
\* number of initThreadPool() invocations so far (a chained one is invoked later)
InitCalls == Cardinality({p \in Promises : initP[p] \in {"inflight", "resolved"}})

FreshInit == CHOOSE p \in Promises : initP[p] = "unused" /\ \A q \in Promises : q < p => initP[q] # "unused"
FreshExit == CHOOSE e \in Promises : exitP[e] = "unused" /\ \A q \in Promises : q < e => exitP[q] # "unused"

\* `if (isNeededBy < 1)` as a test that no count satisfies: the pool is never torn down
NoMoreCallersNever(n) == n < 0

\* `if (isNeededBy < 1)` as a teardown on any remaining count below two
NoMoreCallersOffByOne(n) == n < 2

\* `if (isNeededBy < 1)` / `if (callers < 1)`
NoMoreCallers(n) == n < 1

\* case 'exiting' calling initThreadPool() at once instead of chaining it on the exit
InitWhileExitingEager == "inflight"

\* case 'exiting': state.exitPromise.then(initThreadPool) is not invoked yet
InitWhileExiting == "chained"

\* after `await exitPromise`, the state reset to 'none' whatever it has become
AlwaysResets(s) == TRUE

\* `if (state.type === 'exiting')` after `await exitPromise`
StillExiting(s) == s = "exiting"

\* a finally block that returns normally whatever run() did: the error is swallowed
Swallowed(o) == "value"

\* try { result = await run() } finally { ... } return result: what the caller of
\* withThreadPool gets once the finally block has completed
Propagated(o) == IF o = "threw" THEN "error" ELSE "value"

\* the same in threadpool-runner.cjs: `await run()` does not assign `result`, which
\* is returned as it was declared
RunnerResult(o) == IF o = "threw" THEN "error" ELSE "undefined"

\* withThreadPool(run), from the call to the first suspension: the counter is
\* incremented, the switch drives the state machine, and either the call
\* suspends on state.initPromise or it marks the pool running and starts run()
withThreadPool(c) ==
    /\ rpc[c] = "idle"
    /\ isNeededBy' = isNeededBy + 1
    /\ CASE state = "none" ->
              \* initThreadPool() is invoked here
              /\ initP' = [initP EXCEPT ![FreshInit] = "inflight"]
              /\ UNCHANGED initChain
              /\ stateInit' = FreshInit
              /\ stateExit' = 0
              /\ state' = "initializing"
              /\ rpc' = [rpc EXCEPT ![c] = "awaitInit"]
              /\ rawait' = [rawait EXCEPT ![c] = FreshInit]
         [] state = "initializing" ->
              /\ UNCHANGED <<initP, initChain, stateInit, stateExit, state>>
              /\ rpc' = [rpc EXCEPT ![c] = "awaitInit"]
              /\ rawait' = [rawait EXCEPT ![c] = stateInit]
         [] state = "running" ->
              /\ UNCHANGED <<initP, initChain, stateInit, stateExit, state, rawait>>
              /\ rpc' = [rpc EXCEPT ![c] = "run"]
         [] state = "exiting" ->
              \* state.exitPromise.then(initThreadPool)
              /\ initP' = [initP EXCEPT ![FreshInit] = InitWhileExiting]
              /\ initChain' = [initChain EXCEPT ![FreshInit] = stateExit]
              /\ stateInit' = FreshInit
              /\ stateExit' = 0
              /\ state' = "initializing"
              /\ rpc' = [rpc EXCEPT ![c] = "awaitInit"]
              /\ rawait' = [rawait EXCEPT ![c] = FreshInit]
    /\ UNCHANGED <<exitP, rrun, rres, runnerRes>>
    /\ UNCHANGED <<mvars, ovars>>

\* the .then(initThreadPool) reaction: the exit has resolved, initThreadPool() is invoked
ChainedInitThreadPool(p) ==
    /\ initP[p] = "chained"
    /\ exitP[initChain[p]] = "resolved"
    \* reactions of one promise run in the order they were registered: the await of
    \* the caller that invoked exitThreadPool() was registered before this .then
    /\ \A c \in Callers : ~(rpc[c] = "awaitExit" /\ rawait[c] = initChain[p])
    /\ initP' = [initP EXCEPT ![p] = "inflight"]
    /\ UNCHANGED <<state, stateInit, stateExit, isNeededBy, rpc, rawait, initChain, exitP,
                   rrun, rres, runnerRes>>
    /\ UNCHANGED <<mvars, ovars>>

\* the promise of an invoked initThreadPool() resolves
InitThreadPoolResolves(p) ==
    /\ initP[p] = "inflight"
    /\ initP' = [initP EXCEPT ![p] = "resolved"]
    /\ UNCHANGED <<state, stateInit, stateExit, isNeededBy, rpc, rawait, initChain, exitP,
                   rrun, rres, runnerRes>>
    /\ UNCHANGED <<mvars, ovars>>

\* continuation of `await state.initPromise`: mark the pool available, start run()
AfterInit(c) ==
    /\ rpc[c] = "awaitInit"
    /\ initP[rawait[c]] = "resolved"
    /\ state' = "running"
    /\ stateInit' = 0
    /\ stateExit' = 0
    /\ rpc' = [rpc EXCEPT ![c] = "run"]
    /\ rawait' = [rawait EXCEPT ![c] = 0]
    /\ UNCHANGED <<isNeededBy, initP, initChain, exitP, rrun, rres, runnerRes>>
    /\ UNCHANGED <<mvars, ovars>>

\* run() settles (returns or throws): the finally block up to its suspension
RunFinally(c) ==
    /\ rpc[c] = "run"
    /\ isNeededBy' = isNeededBy - 1
    /\ \E o \in {"returned", "threw"} :
          /\ rrun' = [rrun EXCEPT ![c] = o]
          /\ IF state # "running"
               THEN \* throw new Error('bug in ThreadPool state machine')
                    /\ rpc' = [rpc EXCEPT ![c] = "bug"]
                    /\ rres' = [rres EXCEPT ![c] = "bug"]
                    /\ runnerRes' = [runnerRes EXCEPT ![c] = "bug"]
                    /\ UNCHANGED <<state, stateInit, stateExit, rawait, exitP>>
               ELSE IF NoMoreCallers(isNeededBy - 1)
                      THEN \* exitThreadPool() is invoked here
                           /\ exitP' = [exitP EXCEPT ![FreshExit] = "inflight"]
                           /\ state' = "exiting"
                           /\ stateExit' = FreshExit
                           /\ stateInit' = 0
                           /\ rpc' = [rpc EXCEPT ![c] = "awaitExit"]
                           /\ rawait' = [rawait EXCEPT ![c] = FreshExit]
                           /\ UNCHANGED <<rres, runnerRes>>
                      ELSE /\ rpc' = [rpc EXCEPT ![c] = "done"]
                           /\ rres' = [rres EXCEPT ![c] = Propagated(o)]
                           /\ runnerRes' = [runnerRes EXCEPT ![c] = RunnerResult(o)]
                           /\ UNCHANGED <<state, stateInit, stateExit, rawait, exitP>>
    /\ UNCHANGED <<initP, initChain>>
    /\ UNCHANGED <<mvars, ovars>>

\* the promise of exitThreadPool() resolves
ExitThreadPoolResolves(e) ==
    /\ exitP[e] = "inflight"
    /\ exitP' = [exitP EXCEPT ![e] = "resolved"]
    /\ UNCHANGED <<state, stateInit, stateExit, isNeededBy, rpc, rawait, initP, initChain,
                   rrun, rres, runnerRes>>
    /\ UNCHANGED <<mvars, ovars>>

\* continuation of `await exitPromise`
AfterExit(c) ==
    /\ rpc[c] = "awaitExit"
    /\ exitP[rawait[c]] = "resolved"
    /\ IF StillExiting(state)
         THEN state' = "none" /\ stateExit' = 0 /\ stateInit' = 0
         ELSE UNCHANGED <<state, stateInit, stateExit>>
    /\ rpc' = [rpc EXCEPT ![c] = "done"]
    /\ rres' = [rres EXCEPT ![c] = Propagated(rrun[c])]
    /\ runnerRes' = [runnerRes EXCEPT ![c] = RunnerResult(rrun[c])]
    /\ rawait' = [rawait EXCEPT ![c] = 0]
    /\ UNCHANGED <<isNeededBy, initP, initChain, exitP, rrun>>
    /\ UNCHANGED <<mvars, ovars>>

\* the promise of an invoked initThreadPool() rejects
InitThreadPoolRejects(p) ==
    /\ initP[p] = "inflight"
    /\ initP' = [initP EXCEPT ![p] = "rejected"]
    /\ UNCHANGED <<state, stateInit, stateExit, isNeededBy, rpc, rawait, initChain, exitP,
                   rrun, rres, runnerRes>>
    /\ UNCHANGED <<mvars, ovars>>

\* `await state.initPromise` throws: it stands before the try block, so the call
\* rejects with the error of the initialization and nothing else is executed
AfterInitRejected(c) ==
    /\ rpc[c] = "awaitInit"
    /\ initP[rawait[c]] = "rejected"
    /\ rpc' = [rpc EXCEPT ![c] = "failed"]
    /\ rres' = [rres EXCEPT ![c] = "initError"]
    /\ runnerRes' = [runnerRes EXCEPT ![c] = "initError"]
    /\ rawait' = [rawait EXCEPT ![c] = 0]
    /\ UNCHANGED <<state, stateInit, stateExit, isNeededBy, initP, initChain, exitP, rrun>>
    /\ UNCHANGED <<mvars, ovars>>

RNext ==
    \/ \E c \in Callers : withThreadPool(c)
    \/ \E p \in Promises : ChainedInitThreadPool(p)
    \/ \E p \in Promises : InitThreadPoolResolves(p)
    \/ \E c \in Callers : AfterInit(c)
    \/ \E c \in Callers : RunFinally(c)
    \/ \E e \in Promises : ExitThreadPoolResolves(e)
    \/ \E c \in Callers : AfterExit(c)

(***************************************************************************)
(* Claims on withThreadPool                                                 *)
(***************************************************************************)

\* C1: under every interleaving of concurrent withThreadPool calls the caller
\* counter is never negative, and a step invokes exitThreadPool if and only
\* if it is a finishing caller taking the counter from exactly 1 to 0.
C1_CounterAndExit ==
    /\ [](isNeededBy >= 0)
    /\ [][(ExitCalls' # ExitCalls) <=> (isNeededBy = 1 /\ isNeededBy' = 0)]_vars

\* C1 witness: one caller finished while another was still counted (no exit),
\* and the last one took the counter to 0 and invoked the single exit so far.
C1_Witness ==
    /\ isNeededBy = 0
    /\ state = "exiting"
    /\ ExitCalls = 1
    /\ \E c \in Callers : rpc[c] = "done"
    /\ \E c \in Callers : rpc[c] = "awaitExit"

(***************************************************************************)
(* Part II : ThreadpoolManager.execute and the ThreadPoolHost               *)
(*                                                                          *)
(* One action is one task of an event loop: a synchronous stretch of code   *)
(* from a call or callback to its first suspension.  Promise reactions of   *)
(* execute() are actions of their own; the manager's event callbacks        *)
(* (message, exit, interval), new execute() calls and finally blocks run    *)
(* only when no such reaction is ready.                                     *)
(***************************************************************************)
NoPromise == [kind |-> "none", host |-> 0]
NullPromise == [kind |-> "null", host |-> 0]
InitPromiseOf(h) == [kind |-> "init", host |-> h]

\* a request: the state of its promise (status, val, why), the message posted for it
\* (host, fn, arg), and whether the host it was posted to had yet to emit poolReady
\* at that moment (early)
NoRequest == [status |-> "none", host |-> 0, fn |-> "none", arg |-> 0, val |-> 0, why |-> "none",
              early |-> FALSE, by |-> 0]

\* a message posted to a host
Msg(t, id, f, a) == [type |-> t, callId |-> id, fn |-> f, arg |-> a]
\* a message posted by a host; val is the result
HostMsg(t, id, ok, v) == [type |-> t, callId |-> id, success |-> ok, val |-> v]

\* functions the engine exposes
EngineOps == {"multithreadedSum"}
\* functions a caller's fn may name
FnNames == {"multithreadedSum", "missing"}

\* wasm[functionName](...args): the engine is opaque; its result is a function of the
\* argument, and a name it does not expose throws
EngineResult(f, a) == IF f \in EngineOps THEN [ok |-> TRUE, val |-> 10 * a] ELSE [ok |-> FALSE, val |-> 0]

Min(a, b) == IF a < b THEN a ELSE b

MInit ==
    /\ poolState = "none"
    /\ threadPoolHostWorker = 0
    /\ sinceHeartbeat = 0
    /\ heartbeatMonitor = FALSE
    /\ leakedMonitor = FALSE
    /\ workerChannels = 0
    /\ pendingWasmRequests = {}
    /\ nextRequestId = 1
    /\ initPromise = 0
    /\ exitPromise = NullPromise
    /\ poolReadyResolve = 0
    /\ globalProxy = FALSE
    /\ initResolved = {}
    /\ shutdownWaits = {}
    /\ exitEmitted = {}
    /\ pc = [c \in Execs |-> "idle"]
    /\ awaits = [c \in Execs |-> NoPromise]
    /\ req = [r \in CallIds |-> NoRequest]
    /\ managerThrew = FALSE
    /\ hst = [h \in Hosts |-> "unspawned"]
    /\ hinit = [h \in Hosts |-> "none"]
    /\ hterm = [h \in Hosts |-> FALSE]
    /\ inbox = [h \in Hosts |-> <<>>]
    /\ outbox = [h \in Hosts |-> <<>>]
    /\ executing = [h \in Hosts |-> {}]
    /\ terminatesPosted = [h \in Hosts |-> 0]
    /\ sinceTimeout = -1
    /\ issued = <<>>

\* the pool workers of a host: builder.numThreads() = numWorkers
Workers == 1..NumWorkers

IInit ==
    /\ hostPc = [h \in Hosts |-> "idle"]
    /\ engineInit = [h \in Hosts |-> "none"]
    /\ startWorkersPc = [h \in Hosts |-> "none"]
    /\ wasmWorkers = [h \in Hosts |-> [w \in Workers |-> "unspawned"]]
    /\ built = [h \in Hosts |-> FALSE]
    /\ workersReady = [h \in Hosts |-> FALSE]
    /\ poolReadySent = [h \in Hosts |-> 0]

Shutdowns == 1..MaxShutdowns

\* a shutdown() call that has not been made
NoShutdown == [st |-> "free", target |-> 0, timer |-> "none", sets |-> FALSE]

GInit ==
    /\ gPoolState = "none"
    /\ gThreadPoolHostWorker = 0
    /\ gPendingRequests = {}
    /\ gInitPromise = 0
    /\ gExitPromise = 0
    /\ gInitP = [h \in Hosts |-> "none"]
    /\ gInitTimer = [h \in Hosts |-> "none"]
    /\ gShutdowns = [s \in Shutdowns |-> NoShutdown]
    /\ gPc = [c \in Execs |-> "idle"]
    /\ gAwaits = [c \in Execs |-> 0]
    /\ gHst = [h \in Hosts |-> "unspawned"]
    /\ gExecuting = [h \in Hosts |-> {}]
    /\ gTerminatePosted = {}
    /\ gForced = {}
    /\ gThrew = "no"

HInit ==
    /\ workerPorts = [h \in Hosts |-> <<>>]
    /\ mainThreadPort = [h \in Hosts |-> [w \in Workers |-> 0]]
    /\ workersReadyResolve = [h \in Hosts |-> 0]
    /\ engineInitCalls = [h \in Hosts |-> 0]
    /\ workerPc = [h \in Hosts |-> [w \in Workers |-> "none"]]
    /\ workerPosts = [h \in Hosts |-> [w \in Workers |-> <<>>]]
    /\ termPc = [h \in Hosts |-> "none"]
    /\ engineExit = [h \in Hosts |-> "none"]
    /\ heartbeatsPosted = [h \in Hosts |-> 0]

Init == RInit /\ MInit /\ IInit /\ GInit /\ HInit

\* an exception thrown by a listener of the manager is uncaught and ends the process,
\* its worker threads included
ProcessAlive == ~managerThrew

\* an awaited promise has resolved (await of null continues at once)
PromiseResolved(p) ==
    \/ p.kind = "init" /\ (p.host = 0 \/ p.host \in initResolved)
    \/ p.kind = "exit" /\ p.host \in exitEmitted
    \/ p.kind = "resolved"
    \/ p.kind = "null"

\* a continuation of execute() is ready to run
MicrotaskPending ==
    \E c \in Execs : pc[c] \in {"awaitInit", "awaitExit"} /\ PromiseResolved(awaits[c])

FreshHost == CHOOSE h \in Hosts : hst[h] = "unspawned" /\ \A g \in Hosts : g < h => hst[g] # "unspawned"
CanSpawn == \E h \in Hosts : hst[h] = "unspawned"

\* initThreadPool(), up to `await new Promise(... this.poolReadyResolve = resolve)`
initThreadPool(h) ==
    /\ threadPoolHostWorker' = h
    /\ hst' = [hst EXCEPT ![h] = "alive"]
    /\ workerChannels' = workerChannels + NumWorkers
    /\ inbox' = [inbox EXCEPT ![h] = <<Msg("initPool", 0, "none", 0)>>]
    /\ poolReadyResolve' = h

\* a 'terminate' message is on its way to host w, or host w has taken one
TerminateSent(w) == hterm[w] \/ \E i \in 1..Len(inbox[w]) : inbox[w][i].type = "terminate"

\* shutdown(), up to its await: postMessage({type: 'terminate'}) to worker w, given the
\* hosts ex that have exited.  A message to an exited worker is dropped and a hung
\* worker never takes a message: neither is kept; nor is a second 'terminate', which
\* finds the host already in its terminate handler and changes nothing
ShutdownInbox(w, ex) ==
    IF w # 0 /\ w \notin ex /\ hst[w] = "alive" /\ ~TerminateSent(w)
      THEN [inbox EXCEPT ![w] = Append(@, Msg("terminate", 0, "none", 0))] ELSE inbox

\* shutdown(): the 'terminate' messages posted so far to worker w, counted while the
\* worker can take them; a host that has exited or hung is no longer counted
ShutdownTerminates(w, ex) ==
    IF w # 0 /\ w \notin ex /\ hst[w] = "alive"
      THEN [terminatesPosted EXCEPT ![w] = Min(@ + 1, 2)] ELSE terminatesPosted

\* shutdown(): worker.once('exit', ...); the listener of a worker whose 'exit'
\* has been emitted is never called
ShutdownWaits(w, ex) ==
    IF w # 0 /\ w \notin ex THEN shutdownWaits \cup {w} ELSE shutdownWaits

\* the promise shutdown() returns
ShutdownPromise(w, ex) ==
    IF w = 0 THEN [kind |-> "resolved", host |-> 0]
    ELSE IF w \notin ex THEN [kind |-> "exit", host |-> w]
    ELSE [kind |-> "never", host |-> w]

\* this.lastHeartbeat is read by the interval callback only: with no interval alive
\* its value is not tracked
Silence(v, monitored) == IF monitored THEN v ELSE 0

\* execute(fn), from the call to its first suspension.  Calls are numbered in the
\* order they are made, and are made from tasks of their own: not in the middle of
\* the reactions an event has made ready
execute(c) ==
    /\ ProcessAlive
    /\ pc[c] = "idle"
    /\ \A d \in Execs : d < c => pc[d] # "idle"
    /\ ~MicrotaskPending
    /\ CASE poolState = "none" ->
              /\ CanSpawn
              /\ poolState' = "initializing"
              /\ initThreadPool(FreshHost)
              /\ initPromise' = FreshHost
              /\ pc' = [pc EXCEPT ![c] = "awaitInit"]
              /\ awaits' = [awaits EXCEPT ![c] = InitPromiseOf(FreshHost)]
              /\ UNCHANGED globalProxy
         [] poolState = "initializing" ->
              /\ pc' = [pc EXCEPT ![c] = "awaitInit"]
              /\ awaits' = [awaits EXCEPT ![c] = InitPromiseOf(initPromise)]
              /\ UNCHANGED <<poolState, threadPoolHostWorker, hst, workerChannels, inbox,
                             poolReadyResolve, initPromise, globalProxy>>
         [] poolState = "running" ->
              \* no await: global.__wasmProxy is set and fn() is called
              /\ globalProxy' = TRUE
              /\ pc' = [pc EXCEPT ![c] = "fn"]
              /\ UNCHANGED <<poolState, threadPoolHostWorker, hst, workerChannels, inbox,
                             poolReadyResolve, initPromise, awaits>>
         [] poolState = "exiting" ->
              /\ pc' = [pc EXCEPT ![c] = "awaitExit"]
              /\ awaits' = [awaits EXCEPT ![c] = exitPromise]
              /\ UNCHANGED <<poolState, threadPoolHostWorker, hst, workerChannels, inbox,
                             poolReadyResolve, initPromise, globalProxy>>
    /\ UNCHANGED <<sinceHeartbeat, heartbeatMonitor, leakedMonitor, pendingWasmRequests,
                   nextRequestId, exitPromise, initResolved, shutdownWaits, exitEmitted, req,
                   managerThrew, hinit, hterm, outbox, executing, sinceTimeout>>
    /\ UNCHANGED terminatesPosted
    /\ UNCHANGED <<rvars, issued, ovars>>

\* execute(): continuation of `await this.exitPromise` in case 'exiting'
AfterAwaitExit(c) ==
    /\ ProcessAlive
    /\ pc[c] = "awaitExit"
    /\ PromiseResolved(awaits[c])
    /\ CanSpawn
    /\ poolState' = "initializing"
    /\ initThreadPool(FreshHost)
    /\ initPromise' = FreshHost
    /\ pc' = [pc EXCEPT ![c] = "awaitInit"]
    /\ awaits' = [awaits EXCEPT ![c] = InitPromiseOf(FreshHost)]
    /\ UNCHANGED <<sinceHeartbeat, heartbeatMonitor, leakedMonitor, pendingWasmRequests,
                   nextRequestId, exitPromise, globalProxy, initResolved, shutdownWaits,
                   exitEmitted, req, managerThrew, hinit, hterm, outbox, executing,
                   sinceTimeout>>
    /\ UNCHANGED terminatesPosted
    /\ UNCHANGED <<rvars, issued, ovars>>

\* execute(): continuation of `await this.initPromise`; the try block sets the
\* global proxy and calls fn()
AfterAwaitInit(c) ==
    /\ ProcessAlive
    /\ pc[c] = "awaitInit"
    /\ PromiseResolved(awaits[c])
    /\ globalProxy' = TRUE
    /\ pc' = [pc EXCEPT ![c] = "fn"]
    /\ awaits' = [awaits EXCEPT ![c] = NoPromise]
    /\ UNCHANGED <<poolState, threadPoolHostWorker, sinceHeartbeat, heartbeatMonitor,
                   leakedMonitor, workerChannels, pendingWasmRequests, nextRequestId,
                   initPromise, exitPromise, poolReadyResolve, initResolved, shutdownWaits,
                   exitEmitted, req, managerThrew, hst, hinit, hterm, inbox, outbox, executing, sinceTimeout>>
    /\ UNCHANGED terminatesPosted
    /\ UNCHANGED <<rvars, issued, ovars>>

\* `this.nextRequestId++` with the increment lost: the counter stays where it is
NextRequestIdReused(n) == n

\* createWasmProxy(): the counter after `const callId = this.nextRequestId++`
NextRequestId(n) == n + 1

\* a Wasm call made by a running fn through the patched wrapper while
\* global.__wasmProxy is set: the function returned by the proxy's get trap.
\* The callers pass distinct arguments: the n-th call passes n
WasmProxyCall(c, f) ==
    /\ ProcessAlive
    /\ pc[c] = "fn"
    /\ globalProxy
    /\ Len(issued) < MaxReq
    /\ LET callId == nextRequestId
           w == threadPoolHostWorker
       IN /\ nextRequestId' = NextRequestId(nextRequestId)
          /\ issued' = Append(issued, callId)
          /\ pendingWasmRequests' = pendingWasmRequests \cup {callId}
          \* postMessage on null throws inside the executor: the promise is rejected
          /\ req' = [req EXCEPT ![callId] =
                        [status |-> IF w = 0 THEN "rejected" ELSE "pending",
                         host |-> w, fn |-> f, arg |-> callId, val |-> 0,
                         why |-> IF w = 0 THEN "typeerror" ELSE "none",
                         early |-> (w # 0 /\ hst[w] # "exited" /\ hinit[w] # "ready"),
                         \* the fn that made the call holds the returned promise
                         by |-> c]]
          /\ inbox' = IF w # 0 /\ hst[w] = "alive"
                        THEN [inbox EXCEPT ![w] = Append(@, Msg("wasmCall", callId, f, callId))]
                        ELSE inbox
    /\ UNCHANGED <<poolState, threadPoolHostWorker, sinceHeartbeat, heartbeatMonitor,
                   leakedMonitor, workerChannels, initPromise, exitPromise, poolReadyResolve,
                   globalProxy, initResolved, shutdownWaits, exitEmitted, pc, awaits,
                   managerThrew, hst, hinit, hterm, outbox, executing, sinceTimeout>>
    /\ UNCHANGED terminatesPosted
    /\ UNCHANGED <<rvars, ovars>>

\* the shutdown condition of execute()'s finally block
NoPendingRequests == pendingWasmRequests = {}

\* the finally block clearing global.__wasmProxy only on its shutdown branch
ProxyClearedOnShutdown(noPending) == ~noPending

\* `global.__wasmProxy = null`, the first statement of execute()'s finally block:
\* whether the global still refers to the proxy afterwards
ProxyAfterFn(noPending) == FALSE

\* fn() settles (returns or throws): execute()'s finally block.  It runs after the
\* `await fn()`, hence after the reactions that became ready together with the one
\* that started fn
ExecuteFinally(c) ==
    /\ ProcessAlive
    /\ pc[c] = "fn"
    /\ ~MicrotaskPending
    /\ globalProxy' = ProxyAfterFn(NoPendingRequests)
    /\ pc' = [pc EXCEPT ![c] = "done"]
    /\ IF NoPendingRequests
         THEN LET w == threadPoolHostWorker
              IN /\ poolState' = IF w = 0 THEN "none" ELSE "exiting"
                 /\ exitPromise' = ShutdownPromise(w, exitEmitted)
                 /\ heartbeatMonitor' = FALSE
                 /\ sinceHeartbeat' = Silence(sinceHeartbeat, leakedMonitor)
                 /\ workerChannels' = 0
                 /\ inbox' = ShutdownInbox(w, exitEmitted)
                 /\ shutdownWaits' = ShutdownWaits(w, exitEmitted)
         ELSE UNCHANGED <<poolState, exitPromise, heartbeatMonitor, sinceHeartbeat,
                          workerChannels, inbox, shutdownWaits>>
    /\ UNCHANGED <<threadPoolHostWorker, leakedMonitor, pendingWasmRequests, nextRequestId,
                   initPromise, poolReadyResolve, initResolved, exitEmitted, awaits, req,
                   managerThrew, hst, hinit, hterm, outbox, executing, sinceTimeout>>
    /\ terminatesPosted' = IF NoPendingRequests
                           THEN ShutdownTerminates(threadPoolHostWorker, exitEmitted)
                           ELSE terminatesPosted
    /\ UNCHANGED <<rvars, issued, ovars>>

\* handleWorkerFailure(error) rejecting only the oldest entry of the pending map
RejectOldestOnly(why) ==
    [r \in CallIds |->
        IF r \in pendingWasmRequests /\ req[r].status = "pending"
             /\ \A q \in pendingWasmRequests : r <= q
          THEN [req[r] EXCEPT !.status = "rejected", !.why = why]
          ELSE req[r]]

\* handleWorkerFailure(error): request.reject(...) for every entry of the pending map
RejectAll(why) ==
    [r \in CallIds |->
        IF r \in pendingWasmRequests /\ req[r].status = "pending"
          THEN [req[r] EXCEPT !.status = "rejected", !.why = why]
          ELSE req[r]]

\* handleWorkerMessage, case 'wasmResult': the pending request a result settles,
\* taken as the oldest pending request instead of the one the message names
LookupOldest(m) ==
    IF pendingWasmRequests = {} THEN m.callId
    ELSE CHOOSE r \in pendingWasmRequests : \A q \in pendingWasmRequests : r <= q

\* handleWorkerMessage, case 'wasmResult': this.pendingWasmRequests.get(msg.callId)
LookupRequest(m) == m.callId

\* the 'message' listener of a host worker for poolReady and wasmResult:
\* handleWorkerMessage(msg), followed for poolReady by the rest of initThreadPool()
\* and the .then() that marks the pool running
handleWorkerMessage(h) ==
    /\ ProcessAlive
    /\ outbox[h] # <<>>
    /\ ~MicrotaskPending
    /\ LET m == Head(outbox[h])
           r == LookupRequest(m)
       IN /\ outbox' = [outbox EXCEPT ![h] = Tail(@)]
          /\ CASE m.type = "poolReady" ->
                    IF poolReadyResolve = 0
                      THEN /\ managerThrew' = TRUE
                           /\ UNCHANGED <<initResolved, heartbeatMonitor, leakedMonitor,
                                          sinceHeartbeat, poolState, req, pendingWasmRequests>>
                      ELSE IF poolReadyResolve \in initResolved
                        THEN UNCHANGED <<initResolved, heartbeatMonitor, leakedMonitor,
                                         sinceHeartbeat, poolState, req, pendingWasmRequests,
                                         managerThrew>>
                        ELSE \* createWasmProxy(); startHeartbeatMonitoring(); poolState = 'running'
                             /\ initResolved' = initResolved \cup {poolReadyResolve}
                             /\ heartbeatMonitor' = TRUE
                             /\ leakedMonitor' = (leakedMonitor \/ heartbeatMonitor)
                             /\ sinceHeartbeat' = 0
                             /\ poolState' = "running"
                             /\ UNCHANGED <<req, pendingWasmRequests, managerThrew>>
               [] m.type = "wasmResult" ->
                    IF r \in pendingWasmRequests
                      THEN /\ req' = IF req[r].status = "pending"
                                       THEN [req EXCEPT ![r].status = IF m.success THEN "resolved" ELSE "rejected",
                                                        ![r].val = m.val,
                                                        ![r].why = "result"]
                                       ELSE req
                           /\ pendingWasmRequests' = pendingWasmRequests \ {m.callId}
                           /\ UNCHANGED <<initResolved, heartbeatMonitor, leakedMonitor,
                                          sinceHeartbeat, poolState, managerThrew>>
                      ELSE \* wasmRequest is undefined: wasmRequest.resolve throws
                           /\ managerThrew' = TRUE
                           /\ UNCHANGED <<initResolved, heartbeatMonitor, leakedMonitor,
                                          sinceHeartbeat, poolState, req, pendingWasmRequests>>
    /\ UNCHANGED <<threadPoolHostWorker, workerChannels, nextRequestId, initPromise,
                   exitPromise, poolReadyResolve, globalProxy, shutdownWaits, exitEmitted, pc,
                   awaits, hst, hinit, hterm, inbox, executing, sinceTimeout>>
    /\ UNCHANGED terminatesPosted
    /\ UNCHANGED <<rvars, issued, ovars>>

\* the interval callback reporting a silence that only equals the timeout
HeartbeatTimedOutEarly == sinceHeartbeat >= Timeout

\* the condition of the interval callback of startHeartbeatMonitoring()
HeartbeatTimedOut == sinceHeartbeat > Timeout

\* the interval callback of startHeartbeatMonitoring(); on a timeout
\* handleWorkerFailure('Heartbeat timeout failure') and its shutdown()
MonitorPoll ==
    /\ ProcessAlive
    /\ heartbeatMonitor \/ leakedMonitor
    /\ ~MicrotaskPending
    /\ IF HeartbeatTimedOut
         THEN LET w == threadPoolHostWorker
              IN /\ req' = RejectAll("timeout")
                 /\ pendingWasmRequests' = {}
                 /\ heartbeatMonitor' = FALSE
                 /\ sinceHeartbeat' = Silence(sinceHeartbeat, leakedMonitor)
                 /\ workerChannels' = 0
                 /\ inbox' = ShutdownInbox(w, exitEmitted)
                 /\ shutdownWaits' = ShutdownWaits(w, exitEmitted)
                 /\ poolState' = IF w = 0 THEN "none" ELSE poolState
                 /\ sinceTimeout' = 0
         ELSE UNCHANGED <<req, pendingWasmRequests, heartbeatMonitor, sinceHeartbeat,
                          workerChannels, inbox, shutdownWaits, poolState, sinceTimeout>>
    /\ UNCHANGED <<threadPoolHostWorker, leakedMonitor, nextRequestId, initPromise,
                   exitPromise, poolReadyResolve, globalProxy, initResolved, exitEmitted, pc,
                   awaits, managerThrew, hst, hinit, hterm, outbox, executing>>
    /\ terminatesPosted' = IF HeartbeatTimedOut
                           THEN ShutdownTerminates(threadPoolHostWorker, exitEmitted)
                           ELSE terminatesPosted
    /\ UNCHANGED <<rvars, issued, ovars>>

\* the exit listener of initThreadPool(): a crash is reported unless the pool is exiting
CrashReported(code) == code # 0 /\ poolState # "exiting"

\* the host's thread ends with `code` and the manager's 'exit' listeners run, in the
\* order they were registered: the listener of initThreadPool() (handleWorkerFailure
\* and its shutdown()), then the once-listeners of shutdown() calls awaiting this
\* host, each followed by the rest of its shutdown()
HostExit(h, code) ==
    /\ ProcessAlive
    /\ hst[h] = "alive"
    /\ code = 0 => hterm[h]
    /\ outbox[h] = <<>>
    /\ ~MicrotaskPending
    /\ LET failure == CrashReported(code)
           w == threadPoolHostWorker
           ex == exitEmitted \cup {h}
           once == h \in shutdownWaits
       IN /\ hst' = [hst EXCEPT ![h] = "exited"]
          /\ exitEmitted' = ex
          /\ executing' = [executing EXCEPT ![h] = {}]
          /\ hinit' = [hinit EXCEPT ![h] = "none"]
          /\ hterm' = [hterm EXCEPT ![h] = FALSE]
          /\ IF failure
               THEN /\ req' = RejectAll("crash")
                    /\ pendingWasmRequests' = {}
                    /\ heartbeatMonitor' = FALSE
                    /\ sinceHeartbeat' = Silence(sinceHeartbeat, leakedMonitor)
                    /\ workerChannels' = 0
               ELSE UNCHANGED <<req, pendingWasmRequests, heartbeatMonitor, sinceHeartbeat,
                                workerChannels>>
          /\ inbox' = [(IF failure THEN ShutdownInbox(w, ex) ELSE inbox) EXCEPT ![h] = <<>>]
          /\ shutdownWaits' = (IF failure THEN ShutdownWaits(w, ex) ELSE shutdownWaits) \ {h}
          /\ threadPoolHostWorker' = IF once THEN 0 ELSE w
          /\ poolState' = IF once \/ (failure /\ w = 0) THEN "none" ELSE poolState
    /\ UNCHANGED <<leakedMonitor, nextRequestId, initPromise, exitPromise, poolReadyResolve,
                   globalProxy, initResolved, pc, awaits, managerThrew, outbox, sinceTimeout>>
    /\ terminatesPosted' = [(IF CrashReported(code)
                              THEN ShutdownTerminates(threadPoolHostWorker, exitEmitted \cup {h})
                              ELSE terminatesPosted) EXCEPT ![h] = 0]
    /\ UNCHANGED <<rvars, issued, ovars>>

(***************************************************************************)
(* ThreadPoolHost (patch-env.js, from line 36)                              *)
(***************************************************************************)

\* parentPort.on('message', ...): the handler takes the next message
HostReceive(h) ==
    /\ ProcessAlive
    /\ hst[h] = "alive"
    /\ inbox[h] # <<>>
    /\ LET m == Head(inbox[h])
       IN /\ inbox' = [inbox EXCEPT ![h] = Tail(@)]
          /\ CASE m.type = "initPool" ->
                    \* await wasm.initThreadPool(...); await workersReady
                    /\ hinit' = [hinit EXCEPT ![h] = "inflight"]
                    /\ UNCHANGED <<executing, hterm>>
               [] m.type = "wasmCall" ->
                    \* await wasm[functionName](...args)
                    /\ executing' = [executing EXCEPT ![h] = @ \cup {m}]
                    /\ UNCHANGED <<hinit, hterm>>
               [] m.type = "terminate" ->
                    \* await wasm.exitThreadPool()
                    /\ hterm' = [hterm EXCEPT ![h] = TRUE]
                    /\ UNCHANGED <<hinit, executing>>
    /\ UNCHANGED <<poolState, threadPoolHostWorker, sinceHeartbeat, heartbeatMonitor,
                   leakedMonitor, workerChannels, pendingWasmRequests, nextRequestId,
                   initPromise, exitPromise, poolReadyResolve, globalProxy, initResolved,
                   shutdownWaits, exitEmitted, pc, awaits, req, managerThrew, hst, outbox, sinceTimeout>>
    /\ UNCHANGED terminatesPosted
    /\ UNCHANGED <<rvars, issued, ovars>>

\* case 'initPool', after both awaits: parentPort.postMessage({type: 'poolReady'})
HostPoolReady(h) ==
    /\ ProcessAlive
    /\ hst[h] = "alive"
    /\ hinit[h] = "inflight"
    /\ Len(outbox[h]) < MaxOutbox
    /\ hinit' = [hinit EXCEPT ![h] = "ready"]
    /\ outbox' = [outbox EXCEPT ![h] = Append(@, HostMsg("poolReady", 0, TRUE, 0))]
    /\ UNCHANGED <<poolState, threadPoolHostWorker, sinceHeartbeat, heartbeatMonitor,
                   leakedMonitor, workerChannels, pendingWasmRequests, nextRequestId,
                   initPromise, exitPromise, poolReadyResolve, globalProxy, initResolved,
                   shutdownWaits, exitEmitted, pc, awaits, req, managerThrew, hst, hterm,
                   inbox, executing, sinceTimeout>>
    /\ UNCHANGED terminatesPosted
    /\ UNCHANGED <<rvars, issued, ovars>>

\* case 'wasmCall' with a catch block that reports the error as a success
WasmResultHidesError(m) == HostMsg("wasmResult", m.callId, TRUE, 0)

\* case 'wasmCall', after the await: the wasmResult message for m
WasmResultOf(m) ==
    HostMsg("wasmResult", m.callId, EngineResult(m.fn, m.arg).ok, EngineResult(m.fn, m.arg).val)

\* case 'wasmCall': a call completes and its result (or error) is posted
HostFinishCall(h, m) ==
    /\ ProcessAlive
    /\ hst[h] = "alive"
    /\ m \in executing[h]
    /\ Len(outbox[h]) < MaxOutbox
    /\ executing' = [executing EXCEPT ![h] = @ \ {m}]
    /\ outbox' = [outbox EXCEPT ![h] = Append(@, WasmResultOf(m))]
    /\ UNCHANGED <<poolState, threadPoolHostWorker, sinceHeartbeat, heartbeatMonitor,
                   leakedMonitor, workerChannels, pendingWasmRequests, nextRequestId,
                   initPromise, exitPromise, poolReadyResolve, globalProxy, initResolved,
                   shutdownWaits, exitEmitted, pc, awaits, req, managerThrew, hst, hinit,
                   hterm, inbox, sinceTimeout>>
    /\ UNCHANGED terminatesPosted
    /\ UNCHANGED <<rvars, issued, ovars>>

\* a panic on a pool thread while the host is inside the engine (initialising the
\* pool or executing a call): the host's thread blocks for good, and what it was
\* doing no longer matters
HostHang(h) ==
    /\ ProcessAlive
    /\ hst[h] = "alive"
    /\ hinit[h] = "inflight" \/ executing[h] # {}
    /\ hst' = [hst EXCEPT ![h] = "hung"]
    /\ inbox' = [inbox EXCEPT ![h] = <<>>]
    /\ executing' = [executing EXCEPT ![h] = {}]
    /\ hterm' = [hterm EXCEPT ![h] = FALSE]
    /\ UNCHANGED <<poolState, threadPoolHostWorker, sinceHeartbeat, heartbeatMonitor,
                   leakedMonitor, workerChannels, pendingWasmRequests, nextRequestId,
                   initPromise, exitPromise, poolReadyResolve, globalProxy, initResolved,
                   shutdownWaits, exitEmitted, pc, awaits, req, managerThrew, hinit,
                   outbox, sinceTimeout>>
    /\ terminatesPosted' = [terminatesPosted EXCEPT ![h] = 0]
    /\ UNCHANGED <<rvars, issued, ovars>>

\* the host's heartbeat interval fires (unless the host's event loop stays blocked) and
\* the manager handles the message in the same interval: handleWorkerMessage, case
\* 'heartbeat', sets lastHeartbeat to the timestamp, which is the current time
Heartbeat(h) ==
    /\ ProcessAlive
    /\ hst[h] = "alive"
    /\ ~MicrotaskPending
    /\ sinceHeartbeat' = Silence(0, heartbeatMonitor \/ leakedMonitor)
    /\ UNCHANGED <<poolState, threadPoolHostWorker, heartbeatMonitor, leakedMonitor,
                   workerChannels, pendingWasmRequests, nextRequestId, initPromise,
                   exitPromise, poolReadyResolve, globalProxy, initResolved, shutdownWaits,
                   exitEmitted, pc, awaits, req, managerThrew, hst, hinit, hterm, inbox,
                   outbox, executing, sinceTimeout>>
    /\ UNCHANGED terminatesPosted
    /\ UNCHANGED <<rvars, issued, ovars>>

\* hosts whose event loop is free: not blocked inside an engine call
IdleHosts == {h \in Hosts : hst[h] = "alive" /\ executing[h] = {}}

\* one poll interval (which is one heartbeat interval) passes; the interval of a host
\* whose event loop is free has fired in it
Tick ==
    /\ ProcessAlive
    /\ (heartbeatMonitor \/ leakedMonitor) /\ IdleHosts # {} => sinceHeartbeat = 0
    /\ sinceHeartbeat' = IF heartbeatMonitor \/ leakedMonitor
                           THEN Min(sinceHeartbeat + 1, Timeout + 1) ELSE sinceHeartbeat
    /\ sinceTimeout' = IF sinceTimeout = -1 THEN -1 ELSE Min(sinceTimeout + 1, 1)
    /\ UNCHANGED <<poolState, threadPoolHostWorker, heartbeatMonitor, leakedMonitor,
                   workerChannels, pendingWasmRequests, nextRequestId, initPromise,
                   exitPromise, poolReadyResolve, globalProxy, initResolved, shutdownWaits,
                   exitEmitted, pc, awaits, req, managerThrew, hst, hinit, hterm, inbox,
                   outbox, executing>>
    /\ UNCHANGED terminatesPosted
    /\ UNCHANGED <<rvars, issued, ovars>>

MNext ==
    \/ \E c \in Execs : execute(c)
    \/ \E c \in Execs : AfterAwaitExit(c)
    \/ \E c \in Execs : AfterAwaitInit(c)
    \/ \E c \in Execs, f \in FnNames : WasmProxyCall(c, f)
    \/ \E c \in Execs : ExecuteFinally(c)
    \/ \E h \in Hosts : handleWorkerMessage(h)
    \/ MonitorPoll
    \/ \E h \in Hosts, code \in {0, 1} : HostExit(h, code)
    \/ \E h \in Hosts : HostReceive(h)
    \/ \E h \in Hosts : HostPoolReady(h)
    \/ \E h \in Hosts : \E m \in executing[h] : HostFinishCall(h, m)
    \/ \E h \in Hosts : HostHang(h)
    \/ \E h \in Hosts : Heartbeat(h)
    \/ Tick

(***************************************************************************)
(* Specifications                                                           *)
(***************************************************************************)
SpecRunner == Init /\ [][RNext]_vars

\* the runner with an initThreadPool() that may reject
RNextInitFails ==
    \/ RNext
    \/ \E p \in Promises : InitThreadPoolRejects(p)
    \/ \E c \in Callers : AfterInitRejected(c)

SpecRunnerInitFails == Init /\ [][RNextInitFails]_vars

\* the runner when every run() settles, every invoked initThreadPool() and
\* exitThreadPool() resolves, and every continuation whose promise has settled is run
FairSpecRunner ==
    /\ SpecRunner
    /\ WF_vars(\E p \in Promises : ChainedInitThreadPool(p))
    /\ WF_vars(\E p \in Promises : InitThreadPoolResolves(p))
    /\ WF_vars(\E c \in Callers : AfterInit(c))
    /\ WF_vars(\E c \in Callers : RunFinally(c))
    /\ WF_vars(\E e \in Promises : ExitThreadPoolResolves(e))
    /\ WF_vars(\E c \in Callers : AfterExit(c))

Spec == Init /\ [][MNext]_vars

\* the steps of runs in which no host hangs or crashes and every host answers well
\* within a heartbeat interval, so that no poll of the monitor finds a timeout
NoFailureNext ==
    \/ \E c \in Execs : execute(c)
    \/ \E c \in Execs : AfterAwaitExit(c)
    \/ \E c \in Execs : AfterAwaitInit(c)
    \/ \E c \in Execs, f \in FnNames : WasmProxyCall(c, f)
    \/ \E c \in Execs : ExecuteFinally(c)
    \/ \E h \in Hosts : handleWorkerMessage(h)
    \/ \E h \in Hosts : HostExit(h, 0)
    \/ \E h \in Hosts : HostReceive(h)
    \/ \E h \in Hosts : HostPoolReady(h)
    \/ \E h \in Hosts : \E m \in executing[h] : HostFinishCall(h, m)

SpecNoFailure == Init /\ [][NoFailureNext]_vars

\* The fn of the example: `async () => { const result = await wasm.multithreadedSum();
\* return result + i; }`.  It makes its one proxied call synchronously when it is
\* started, and settles in the microtasks that follow the settling of that call.
\* the requests made by the fn of call c
CallsOf(c) == {r \in CallIds : req[r].by = c}
\* a started fn is about to make its call: nothing else runs before it does
CallDue == \E c \in Execs : pc[c] = "fn" /\ CallsOf(c) = {}
\* the promise a fn awaits has settled: the fn settles before any other task runs
FnSettles(c) == pc[c] = "fn" /\ \E r \in CallsOf(c) : req[r].status # "pending"
FnDue == \E c \in Execs : FnSettles(c)

\* the steps of failure-free runs in which every fn has the shape of the example
OneCallNext ==
    \/ /\ ~CallDue /\ ~FnDue
       /\ \/ \E c \in Execs : execute(c)
          \/ \E c \in Execs : AfterAwaitExit(c)
          \/ \E c \in Execs : AfterAwaitInit(c)
          \/ \E h \in Hosts : handleWorkerMessage(h)
          \/ \E h \in Hosts : HostExit(h, 0)
          \/ \E h \in Hosts : HostReceive(h)
          \/ \E h \in Hosts : HostPoolReady(h)
          \/ \E h \in Hosts : \E m \in executing[h] : HostFinishCall(h, m)
    \/ \E c \in Execs, f \in FnNames : pc[c] = "fn" /\ CallsOf(c) = {} /\ WasmProxyCall(c, f)
    \/ \E c \in Execs : FnSettles(c) /\ ~CallDue /\ ExecuteFinally(c)

SpecOneCall == Init /\ [][OneCallNext]_vars

\* The event loops keep running: a promise reaction that is ready runs, a delivered
\* message is handled, timers fire, a host that is not hung finishes what it has
\* begun, and a fn that was started settles.  Arrivals of execute() calls, the
\* calls a fn makes, hangs and crashes are not forced.
FairSpec ==
    /\ Spec
    /\ \A c \in Execs : WF_vars(AfterAwaitExit(c))
    /\ \A c \in Execs : WF_vars(AfterAwaitInit(c))
    /\ \A c \in Execs : WF_vars(ExecuteFinally(c))
    /\ \A h \in Hosts : WF_vars(handleWorkerMessage(h))
    /\ \A h \in Hosts : WF_vars(HostExit(h, 0))
    /\ \A h \in Hosts : WF_vars(HostReceive(h))
    /\ \A h \in Hosts : WF_vars(HostPoolReady(h))
    /\ \A h \in Hosts : WF_vars(\E m \in executing[h] : HostFinishCall(h, m))
    /\ \A h \in Hosts : WF_vars(Heartbeat(h))
    /\ WF_vars(MonitorPoll)
    /\ WF_vars(Tick)

\* failure-free runs in which the event loops keep running
FairSpecNoFailure ==
    /\ SpecNoFailure
    /\ \A c \in Execs : WF_vars(AfterAwaitExit(c))
    /\ \A c \in Execs : WF_vars(AfterAwaitInit(c))
    /\ \A c \in Execs : WF_vars(ExecuteFinally(c))
    /\ \A h \in Hosts : WF_vars(handleWorkerMessage(h))
    /\ \A h \in Hosts : WF_vars(HostExit(h, 0))
    /\ \A h \in Hosts : WF_vars(HostReceive(h))
    /\ \A h \in Hosts : WF_vars(HostPoolReady(h))
    /\ \A h \in Hosts : WF_vars(\E m \in executing[h] : HostFinishCall(h, m))

(***************************************************************************)
(* Claims on ThreadpoolManager.execute and the proxied requests            *)
(***************************************************************************)

\* C2: a caller whose fn settles never triggers shutdown while another caller's
\* fn is still running: its finally block leaves poolState alone and posts
\* nothing (no 'terminate') to a host, whether or not the other fn has a request
\* pending at that moment.
C2_NoShutdownWhileFnRuns ==
    [][\A c, d \in Execs :
          (c # d /\ pc[c] = "fn" /\ pc'[c] = "done" /\ pc[d] = "fn")
              => (poolState' = poolState /\ inbox' = inbox)]_vars

\* C3: initThreadPool() is invoked at most once per init/exit cycle: a host is
\* spawned only when no host spawned earlier is still initialising or alive
\* (a hung host is a live thread).
C3_SingleHostPerCycle ==
    [][\A h \in Hosts :
          (hst[h] = "unspawned" /\ hst'[h] # "unspawned")
              => \A g \in Hosts : hst[g] \notin {"alive", "hung"}]_vars

\* C4: one monitoring interval after the monitor reported a heartbeat timeout,
\* the pool is not still held by a hung host: the host has been terminated and
\* poolState is 'none'.
C4_TimeoutReturnsToNone ==
    (sinceTimeout = 1 /\ threadPoolHostWorker # 0 /\ hst[threadPoolHostWorker] = "hung")
        => poolState = "none"

\* C5: when the host exits with a nonzero code while requests are pending and
\* poolState is 'running', the step that handles the exit rejects them all with
\* the crash error, empties the pending map and leaves poolState 'none'.
C5_CrashReturnsToNone ==
    [][\A h \in Hosts :
          (/\ hst[h] = "alive" /\ hst'[h] = "exited"
           /\ poolState = "running" /\ pendingWasmRequests # {}
           /\ \E r \in pendingWasmRequests : req'[r].why = "crash")
              => /\ \A r \in pendingWasmRequests : req'[r].status = "rejected"
                 /\ pendingWasmRequests' = {}
                 /\ poolState' = "none"]_vars

\* C6: every promise returned by a proxied call is eventually settled (unless an
\* uncaught exception ends the process first).
C6_RequestsSettle ==
    \A r \in CallIds :
        (req[r].status = "pending") ~> (req[r].status # "pending" \/ managerThrew)

\* C7: no execute() call waits forever for the pool: a call suspended on the
\* initialization or on the shutdown eventually starts its fn (unless an
\* uncaught exception ends the process first).
C7_ExecuteProceeds ==
    \A c \in Execs :
        (pc[c] \in {"awaitInit", "awaitExit"}) ~> (pc[c] \in {"fn", "done"} \/ managerThrew)

\* C8: no wasmCall is posted to a host that has not yet emitted poolReady; in
\* particular the first call of work submitted during 'exiting' goes to a host
\* whose initialization has completed.
C8_CallsOnlyToReadyHost ==
    \A r \in CallIds : req[r].host # 0 => ~req[r].early

\* C9: a request settled by a wasmResult message has the outcome of the message
\* carrying its own callId (its own function applied to its own argument),
\* whatever the order in which the host posts results; and a settled promise
\* is never settled again.
C9_SettledByOwnCallId ==
    /\ [](\A r \in CallIds :
             /\ req[r].status = "resolved"
                  => (EngineResult(req[r].fn, req[r].arg).ok /\ req[r].val = EngineResult(req[r].fn, req[r].arg).val)
             /\ (req[r].status = "rejected" /\ req[r].why = "result")
                  => ~EngineResult(req[r].fn, req[r].arg).ok)
    /\ [][\A r \in CallIds :
             req[r].status \in {"resolved", "rejected"} => req'[r] = req[r]]_vars

\* C9 witness: two requests are in flight at the same host and the later one
\* has been resolved, by its own result, while the earlier one is still pending.
C9_Witness ==
    /\ req[1].status = "pending"
    /\ req[2].status = "resolved"
    /\ req[2].val = EngineResult(req[2].fn, req[2].arg).val
    /\ req[1].host = req[2].host

\* C10: the ids allocated are strictly increasing in allocation order (hence
\* pairwise distinct), the counter never goes back, whatever shutdown, failure
\* or re-initialization happens in between, and a message a host holds or has
\* posted carries the id of a request that was issued to that host.
C10_IdsIncreaseNeverReused ==
    /\ [](\A i, j \in 1..Len(issued) : i < j => issued[i] < issued[j])
    /\ [](\A i \in 1..Len(issued) : issued[i] < nextRequestId)
    /\ [](\A h \in Hosts :
             /\ \A i \in 1..Len(outbox[h]) :
                    outbox[h][i].type = "wasmResult" => req[outbox[h][i].callId].host = h
             /\ \A m \in executing[h] : req[m.callId].host = h)
    /\ [][nextRequestId' >= nextRequestId]_vars

\* C10 witness: two ids were allocated on the two sides of a shutdown and
\* re-initialization: the first went to a host that has exited, the second to
\* its successor.
C10_Witness ==
    /\ Len(issued) = 2
    /\ req[issued[1]].host # 0
    /\ req[issued[2]].host # 0
    /\ req[issued[1]].host # req[issued[2]].host
    /\ hst[req[issued[1]].host] = "exited"

----------------------------------------------------------------------------
\* C12: whenever the run of a withThreadPool call is executing, and at the moment
\* it has just finished and the finally block runs its sanity check, the state is
\* 'running': no call ever throws 'bug in ThreadPool state machine'.
C12_RunningWhileRunExecutes ==
    /\ \A c \in Callers : rpc[c] = "run" => state = "running"
    /\ \A c \in Callers : rpc[c] # "bug" /\ rres[c] # "bug"

\* C12 witness: one run has finished and passed the sanity check while a second run,
\* which joined the pool while it was initializing, is still executing.
C12_Witness ==
    /\ \E c \in Callers : rpc[c] = "done" /\ rres[c] \in {"value", "error"}
    /\ \E c \in Callers : rpc[c] = "run"
    /\ state = "running"
    /\ InitCalls = 1

\* C13: every caller that arrives while the pool is initializing awaits the one
\* initPromise of the state; initThreadPool and exitThreadPool invocations strictly
\* alternate, starting with an init: initThreadPool is invoked only when every exit
\* invoked so far has resolved and as many exits as inits were invoked, and
\* exitThreadPool is invoked only when no initialization is in flight or pending.
C13_InitExitAlternate ==
    /\ [](\A c, d \in Callers :
            rpc[c] = "awaitInit" /\ rpc[d] = "awaitInit" => rawait[c] = rawait[d])
    /\ [](\A c \in Callers :
            rpc[c] = "awaitInit" /\ state = "initializing" => rawait[c] = stateInit)
    /\ [](InitCalls - ExitCalls \in {0, 1})
    /\ [][InitCalls' # InitCalls =>
            /\ InitCalls' = InitCalls + 1
            /\ InitCalls = ExitCalls
            /\ \A e \in Promises : exitP[e] # "inflight"
            /\ \A p \in Promises : initP[p] # "inflight"]_vars
    /\ [][ExitCalls' # ExitCalls =>
            /\ ExitCalls' = ExitCalls + 1
            /\ InitCalls = ExitCalls + 1
            /\ \A p \in Promises : initP[p] \notin {"inflight", "chained"}
            /\ \A e \in Promises : exitP[e] # "inflight"]_vars

\* C13 witness: after a first init and its exit, the second initThreadPool() has been
\* invoked (chained on the resolved exit) and two callers await its one promise.
C13_Witness ==
    /\ InitCalls = 2
    /\ ExitCalls = 1
    /\ state = "initializing"
    /\ initP[stateInit] = "inflight"
    /\ \E c, d \in Callers :
          /\ c # d
          /\ rpc[c] = "awaitInit" /\ rpc[d] = "awaitInit"
          /\ rawait[c] = stateInit /\ rawait[d] = stateInit

\* C14: for a caller that arrived while the pool was exiting, initThreadPool is
\* invoked only after that exit has resolved, and its run starts only after that
\* init has resolved; the earlier caller, resuming from its await of the exit,
\* leaves the state alone when it is no longer 'exiting' (the new caller has moved
\* it to 'initializing').
C14_ReinitAfterExit ==
    /\ [](\A p \in Promises :
            initChain[p] # 0 /\ initP[p] \in {"inflight", "resolved"}
                => exitP[initChain[p]] = "resolved")
    /\ [][\A c \in Callers :
            rpc[c] = "awaitInit" /\ rpc'[c] = "run" /\ initChain[rawait[c]] # 0
                => /\ exitP[initChain[rawait[c]]] = "resolved"
                   /\ initP[rawait[c]] = "resolved"]_vars
    /\ [][\A c \in Callers :
            rpc[c] = "awaitExit" /\ rpc'[c] = "done" /\ state # "exiting"
                => state' = state /\ stateInit' = stateInit]_vars

\* C14 witness: the caller that invoked the exit has resumed and is done, and the
\* caller that arrived during that exit is executing its run after the chained init.
C14_Witness ==
    /\ state = "running"
    /\ \E p \in Promises :
          /\ initChain[p] # 0
          /\ initP[p] = "resolved"
          /\ exitP[initChain[p]] = "resolved"
          /\ \E d \in Callers : rpc[d] = "done" /\ rres[d] # "none"
    /\ \E c \in Callers : rpc[c] = "run"
    /\ InitCalls = 2
    /\ ExitCalls = 1

\* C15: when run() throws or rejects, the promise of withThreadPool rejects with that
\* error (and resolves with the value otherwise); the counter is decremented exactly
\* once per call, in the finally block, so that it always equals the number of calls
\* between their increment and their finally; the call that takes the counter to zero
\* invokes exitThreadPool even when its run threw; and a call that finds the state
\* 'none' afterwards starts a fresh initialization.
C15_ErrorPropagatesAndCleansUp ==
    /\ [](\A c \in Callers :
            rpc[c] = "done" => rres[c] = IF rrun[c] = "threw" THEN "error" ELSE "value")
    /\ [](isNeededBy = Cardinality({c \in Callers : rpc[c] \in {"awaitInit", "run"}}))
    /\ [][\A c \in Callers :
            rrun[c] = "none" /\ rrun'[c] # "none"
                => /\ isNeededBy' = isNeededBy - 1
                   /\ (isNeededBy = 1 => state' = "exiting" /\ ExitCalls' = ExitCalls + 1)]_vars
    /\ [][\A c \in Callers :
            rpc[c] = "idle" /\ rpc'[c] # "idle" /\ state = "none"
                => /\ state' = "initializing"
                   /\ InitCalls' = InitCalls + 1
                   /\ rpc'[c] = "awaitInit"]_vars

\* C15 witness: a run threw, its call took the counter to zero, invoked the exit and
\* has rejected with the error; a later call has initialised the pool again and its
\* run is executing.
C15_Witness ==
    /\ \A d \in Callers : rpc[d] = "done" => rrun[d] = "threw" /\ rres[d] = "error"
    /\ \E d \in Callers : rpc[d] = "done"
    /\ ExitCalls = 1
    /\ InitCalls = 2
    /\ isNeededBy = 1
    /\ state = "running"
    /\ \E c \in Callers : rpc[c] = "run"

\* C16: the state machine has no terminal state other than rest: when every run
\* terminates and every init and exit resolves, a pool that is in use always comes
\* back to state 'none' with the counter at 0, every call that waits for an
\* initialization gets to run with the state 'running', and every call completes;
\* so a call made after the return to 'none' drives none -> initializing -> running again.
C16_AlwaysReturnsToNone ==
    /\ (isNeededBy > 0 \/ state # "none") ~> (state = "none" /\ isNeededBy = 0)
    /\ \A c \in Callers :
          (rpc[c] = "awaitInit") ~> (rpc[c] = "run" /\ state = "running")
    /\ \A c \in Callers : (rpc[c] # "idle") ~> (rpc[c] = "done")

\* C16 witness: the machine is back at rest for the second time: after the first
\* return to 'none' a later call started a fresh initialization (not one chained on
\* an exit), ran, and tore the pool down again.
C16_Witness ==
    /\ state = "none"
    /\ isNeededBy = 0
    /\ ExitCalls = 2
    /\ InitCalls = 2
    /\ \A p \in Promises : initChain[p] = 0
    /\ \A e \in Promises : exitP[e] # "inflight"
    /\ \A c \in Callers : rpc[c] \in {"idle", "done"}

\* C17: a rejected initialization is contained: once every call that awaited the
\* rejected initPromise has rejected and no other call is in progress, the state is
\* 'none' and the counter is 0, so that the next call starts a fresh initialization.
C17_FailedInitIsContained ==
    (/\ \E c \in Callers : rpc[c] = "failed"
     /\ \A c \in Callers : rpc[c] \in {"idle", "done", "failed"})
        => (state = "none" /\ isNeededBy = 0)

\* C11: a wasmResult whose callId is not in pendingWasmRequests (a duplicate, or a
\* result that arrives after the request was rejected and the map cleared) is a
\* no-op: the handler throws nothing, and no request and no lifecycle state changes.
C11_UnknownResultIsNoOp ==
    [][\A h \in Hosts :
        (/\ outbox[h] # <<>>
         /\ outbox'[h] = Tail(outbox[h])
         /\ Head(outbox[h]).type = "wasmResult"
         /\ Head(outbox[h]).callId \notin pendingWasmRequests)
            => /\ ~managerThrew'
               /\ req' = req
               /\ pendingWasmRequests' = pendingWasmRequests
               /\ poolState' = poolState]_vars

\* C18: while the fn of any execute call is running, global.__wasmProxy refers to
\* the manager's proxy, whatever the interleaving of overlapping execute calls.
C18_ProxySetWhileFnRuns ==
    (\E c \in Execs : pc[c] = "fn") => globalProxy

\* C19: whenever no execute call is in progress (each one has either not been made
\* or has left its finally block), global.__wasmProxy is unset.
C19_ProxyUnsetWhenIdle ==
    (\A c \in Execs : pc[c] \in {"idle", "done"}) => ~globalProxy

\* C19 witness: an execute call has completed whose fn made a proxied call and
\* returned while the request was still pending, so that the finally block did not
\* shut the pool down; no execute call is in progress and the global is unset.
C19_Witness ==
    /\ \A c \in Execs : pc[c] \in {"idle", "done"}
    /\ \E c \in Execs : pc[c] = "done"
    /\ pendingWasmRequests # {}
    /\ poolState = "running"
    /\ ~globalProxy

\* the steps that post 'terminate' to a host
TerminatePosted ==
    \E h \in Hosts : ~TerminateSent(h) /\ inbox'[h] # <<>>
                     /\ inbox'[h][Len(inbox'[h])].type = "terminate"
                     /\ Len(inbox'[h]) = Len(inbox[h]) + 1

\* C20: with execute calls that overlap and whose fns each make one proxied call
\* (as the fn of the example does: when it starts, settling with the result),
\* 'terminate' is posted only when the result of every call made has been delivered
\* and no other fn is running or waiting to start, and it is posted in the very step
\* in which the last running fn completes with the pending map empty.
C20_TerminateAfterLastResult ==
    /\ [][TerminatePosted =>
            /\ pendingWasmRequests = {}
            /\ \A r \in CallIds : req[r].status # "none"
                    => req[r].status # "pending" /\ req[r].why = "result"
            /\ \A c \in Execs : pc'[c] \notin {"fn", "awaitInit"}]_vars
    /\ [][\A c \in Execs :
            (/\ pc[c] = "fn" /\ pc'[c] = "done"
             /\ \A d \in Execs \ {c} : pc[d] # "fn"
             /\ pendingWasmRequests = {})
                => /\ poolState' = "exiting"
                   /\ TerminatePosted
                   /\ inbox'[threadPoolHostWorker] # inbox[threadPoolHostWorker]]_vars

\* C21: once every fn passed to execute has settled and every proxied request has
\* been answered, the manager eventually posts 'terminate' and the pool shuts down
\* (poolState back to 'none'), also when the last result arrives after the fn that
\* made the request has returned.
C21_IdlePoolShutsDown ==
    (/\ \A c \in Execs : pc[c] \in {"idle", "done"}
     /\ \E c \in Execs : pc[c] = "done"
     /\ pendingWasmRequests = {}
     /\ \A r \in CallIds : req[r].status # "pending")
        ~> (poolState = "none")

\* C22: when a poll of the heartbeat monitor finds the silence above the timeout, it
\* invokes the failure handler once and polling stops with that poll: no interval of
\* the manager is left to poll again (and report again) while the teardown lasts.
C22_TimeoutStopsPolling ==
    [][(/\ heartbeatMonitor \/ leakedMonitor
        /\ HeartbeatTimedOut
        /\ sinceTimeout' = 0
        /\ pc' = pc /\ hst' = hst /\ outbox' = outbox)
            => ~(heartbeatMonitor' \/ leakedMonitor')]_vars

\* C23: the monitor invokes the failure handler only when more than the timeout has
\* elapsed since the later of the start of monitoring and the last recorded
\* heartbeat; the measured silence grows only with time, one interval at a time,
\* and a wasmResult message never changes lastHeartbeat.
C23_FailureOnlyAfterTimeout ==
    /\ [][(sinceTimeout # 0 /\ sinceTimeout' = 0) => sinceHeartbeat > Timeout]_vars
    /\ [][sinceHeartbeat' > sinceHeartbeat => sinceHeartbeat' = sinceHeartbeat + 1]_vars
    /\ [][\A h \in Hosts :
            (/\ outbox[h] # <<>> /\ outbox'[h] = Tail(outbox[h])
             /\ Head(outbox[h]).type = "wasmResult")
                => sinceHeartbeat' = sinceHeartbeat]_vars

\* C23 witness: the monitor has just reported a timeout and rejected a pending
\* request, after a silence longer than the timeout.
C23_Witness ==
    /\ sinceTimeout = 0
    /\ \E r \in CallIds : req[r].status = "rejected" /\ req[r].why = "timeout"
    /\ ~heartbeatMonitor
    /\ pendingWasmRequests = {}

\* C24: a host that is alive and has not handled 'terminate' emits a heartbeat on
\* every interval, whether or not it is executing a call: while such a host exists,
\* the silence measured by the manager never grows beyond one interval.
C24_HeartbeatEveryInterval ==
    [][(sinceHeartbeat >= 1 /\ sinceHeartbeat' = sinceHeartbeat + 1)
          => \A h \in Hosts : ~(hst[h] = "alive" /\ hinit[h] = "ready" /\ ~hterm[h])]_vars

\* C27: whenever poolState is 'none' the manager holds no live host (every host it
\* spawned has exited and threadPoolHostWorker is null), no open worker channel and
\* no active heartbeat interval.
C27_NoneHoldsNothing ==
    poolState = "none" =>
        /\ threadPoolHostWorker = 0
        /\ \A h \in Hosts : hst[h] \in {"unspawned", "exited"}
        /\ workerChannels = 0
        /\ ~heartbeatMonitor /\ ~leakedMonitor

\* C28: worker channels do not outlive one init/exit cycle: an initialization that
\* creates channels finds workerChannels empty (those of the previous initialization
\* have been closed and removed) and creates exactly numWorkers of them, so that
\* workerChannels never holds more than numWorkers channels.
C28_ChannelsWithinOneCycle ==
    /\ [](workerChannels <= NumWorkers)
    /\ [][workerChannels' > workerChannels
            => workerChannels = 0 /\ workerChannels' = NumWorkers]_vars

\* C30: a call naming an operation the engine does not expose fails only that call:
\* the host posts a failure result carrying the id of that call and keeps running
\* with its other calls; the manager, handling that result, rejects the promise with
\* that id only and leaves poolState and every other request as they are.
C30_MissingOperationFailsOneCall ==
    /\ [][\A h \in Hosts : \A m \in executing[h] :
            (m.fn \notin EngineOps /\ m \notin executing'[h] /\ hst'[h] = "alive")
                => /\ outbox'[h] = Append(outbox[h], HostMsg("wasmResult", m.callId, FALSE, 0))
                   /\ executing'[h] = executing[h] \ {m}
                   /\ hinit'[h] = hinit[h]]_vars
    /\ [][\A h \in Hosts :
            (/\ outbox[h] # <<>> /\ outbox'[h] = Tail(outbox[h])
             /\ Head(outbox[h]).type = "wasmResult"
             /\ ~Head(outbox[h]).success
             /\ Head(outbox[h]).callId \in pendingWasmRequests)
                => LET id == Head(outbox[h]).callId
                   IN /\ req'[id].status = "rejected" /\ req'[id].why = "result"
                      /\ \A q \in CallIds \ {id} : req'[q] = req[q]
                      /\ pendingWasmRequests' = pendingWasmRequests \ {id}
                      /\ poolState' = poolState
                      /\ heartbeatMonitor' = heartbeatMonitor
                      /\ ~managerThrew']_vars

\* C30 witness: the first call named a missing operation and was rejected by its
\* failure result; the same host, still alive, has then executed the second call,
\* whose promise is resolved with its result, and the pool is still running.
C30_Witness ==
    /\ req[1].status = "rejected" /\ req[1].why = "result" /\ req[1].fn \notin EngineOps
    /\ req[2].status = "resolved" /\ req[2].why = "result" /\ req[2].val = 20
    /\ req[2].host = req[1].host
    /\ hst[req[1].host] = "alive"
    /\ poolState = "running"
    /\ sinceTimeout = -1

(***************************************************************************)
(* Part III: pool initialization inside the ThreadPoolHost                  *)
(***************************************************************************)

\* startWorkers going on to builder.build() as soon as one worker is ready
AnyWorkerReady(h) == \E w \in Workers : wasmWorkers[h][w] = "done"

\* await Promise.all(...): every worker has sent wasm_bindgen_worker_ready
AllWorkersReady(h) == \A w \in Workers : wasmWorkers[h][w] = "done"

\* initThreadPool() of the manager: port1Array, the port1 of one new channel per
\* pool worker; the channels of an initialization are numbered from `first`
PortArray(first) == [i \in 1..NumWorkers |-> first + i - 1]

\* startWorkers handing every worker the first port
FirstPort(ports, index) == ports[1]

\* startWorkers: `const workerPort = workerPorts[index]`
PortFor(ports, index) == ports[index]

\* case 'initPool', up to `await wasm.initThreadPool(...)`
HostInitPool(h) ==
    /\ hostPc[h] = "idle"
    /\ termPc[h] = "none"
    /\ hostPc' = [hostPc EXCEPT ![h] = "engine"]
    /\ engineInit' = [engineInit EXCEPT ![h] = "called"]
    /\ workersReady' = [workersReady EXCEPT ![h] = FALSE]
    /\ workerPorts' = [workerPorts EXCEPT ![h] = PortArray(1)]
    /\ workersReadyResolve' = [workersReadyResolve EXCEPT ![h] = 1]
    /\ engineInitCalls' = [engineInitCalls EXCEPT ![h] = @ + 1]
    /\ UNCHANGED <<startWorkersPc, wasmWorkers, built, poolReadySent>>
    /\ UNCHANGED <<mainThreadPort, workerPc, workerPosts, termPc, engineExit, heartbeatsPosted>>
    /\ UNCHANGED <<rvars, mvars, gvars>>

\* the engine, initialising the pool, calls startWorkers(memory, builder), which
\* spawns builder.numThreads() workers and suspends in Promise.all
StartWorkers(h) ==
    /\ termPc[h] # "exited"
    /\ engineInit[h] = "called"
    /\ startWorkersPc[h] = "none"
    /\ startWorkersPc' = [startWorkersPc EXCEPT ![h] = "waiting"]
    /\ Len(workerPorts[h]) >= NumWorkers
    /\ wasmWorkers' = [wasmWorkers EXCEPT ![h] = [w \in Workers |-> "spawned"]]
    /\ mainThreadPort' = [mainThreadPort EXCEPT ![h] = [w \in Workers |-> PortFor(workerPorts[h], w)]]
    /\ UNCHANGED <<hostPc, engineInit, built, workersReady, poolReadySent>>
    /\ UNCHANGED <<workerPorts, workersReadyResolve, engineInitCalls, workerPc, workerPosts,
                   termPc, engineExit, heartbeatsPosted>>
    /\ UNCHANGED <<rvars, mvars, gvars>>

\* a pool worker posts { type: 'wasm_bindgen_worker_ready' }
WorkerPostsReady(h, w) ==
    /\ termPc[h] # "exited"
    /\ wasmWorkers[h][w] = "spawned"
    /\ wasmWorkers' = [wasmWorkers EXCEPT ![h][w] = "readySent"]
    /\ workerPosts' = [workerPosts EXCEPT ![h][w] =
                          Append(@, [port |-> "parentPort", type |-> "wasm_bindgen_worker_ready"])]
    /\ UNCHANGED <<hostPc, engineInit, startWorkersPc, built, workersReady, poolReadySent>>
    /\ UNCHANGED <<workerPorts, mainThreadPort, workersReadyResolve, engineInitCalls, workerPc,
                   termPc, engineExit, heartbeatsPosted>>
    /\ UNCHANGED <<rvars, mvars, gvars>>

\* worker.on('message'): done = true; resolve(worker)
WorkerReadyHandled(h, w) ==
    /\ termPc[h] # "exited"
    /\ wasmWorkers[h][w] = "readySent"
    /\ wasmWorkers' = [wasmWorkers EXCEPT ![h][w] = "done"]
    /\ UNCHANGED <<hostPc, engineInit, startWorkersPc, built, workersReady, poolReadySent>>
    /\ UNCHANGED hvars
    /\ UNCHANGED <<rvars, mvars, gvars>>

\* startWorkers after Promise.all: builder.build(); workersReadyResolve()
StartWorkersBuild(h) ==
    /\ termPc[h] # "exited"
    /\ startWorkersPc[h] = "waiting"
    /\ AllWorkersReady(h)
    /\ startWorkersPc' = [startWorkersPc EXCEPT ![h] = "built"]
    /\ built' = [built EXCEPT ![h] = TRUE]
    \* workersReadyResolve() resolves the promise of the handling that set it last
    /\ workersReady' = [workersReady EXCEPT ![h] = (workersReadyResolve[h] = 1)]
    /\ UNCHANGED <<hostPc, engineInit, wasmWorkers, poolReadySent>>
    /\ UNCHANGED hvars
    /\ UNCHANGED <<rvars, mvars, gvars>>

\* the promise of wasm.initThreadPool() resolves.  The engine is opaque: it has
\* called startWorkers, and nothing else is known about when it resolves
EngineInitResolves(h) ==
    /\ termPc[h] # "exited"
    /\ engineInit[h] = "called"
    /\ startWorkersPc[h] # "none"
    /\ engineInit' = [engineInit EXCEPT ![h] = "resolved"]
    /\ UNCHANGED <<hostPc, startWorkersPc, wasmWorkers, built, workersReady, poolReadySent>>
    /\ UNCHANGED hvars
    /\ UNCHANGED <<rvars, mvars, gvars>>

\* case 'initPool': `await wasm.initThreadPool(...)` continues to `await workersReady`
AfterEngineInit(h) ==
    /\ termPc[h] # "exited"
    /\ hostPc[h] = "engine"
    /\ engineInit[h] = "resolved"
    /\ hostPc' = [hostPc EXCEPT ![h] = "workers"]
    /\ UNCHANGED <<engineInit, startWorkersPc, wasmWorkers, built, workersReady, poolReadySent>>
    /\ UNCHANGED hvars
    /\ UNCHANGED <<rvars, mvars, gvars>>

\* case 'initPool' without its `await workersReady`
WorkersReadyNotAwaited(h) == TRUE

\* case 'initPool': `await workersReady` has been passed
WorkersReadyAwaited(h) == workersReady[h]

\* case 'initPool': parentPort.postMessage({ type: 'poolReady' })
PostPoolReady(h) ==
    /\ termPc[h] # "exited"
    /\ hostPc[h] = "workers"
    /\ WorkersReadyAwaited(h)
    /\ hostPc' = [hostPc EXCEPT ![h] = "posted"]
    /\ poolReadySent' = [poolReadySent EXCEPT ![h] = @ + 1]
    /\ UNCHANGED <<engineInit, startWorkersPc, wasmWorkers, built, workersReady>>
    /\ UNCHANGED hvars
    /\ UNCHANGED <<rvars, mvars, gvars>>

INext ==
    \/ \E h \in Hosts : HostInitPool(h)
    \/ \E h \in Hosts : StartWorkers(h)
    \/ \E h \in Hosts, w \in Workers : WorkerPostsReady(h, w)
    \/ \E h \in Hosts, w \in Workers : WorkerReadyHandled(h, w)
    \/ \E h \in Hosts : StartWorkersBuild(h)
    \/ \E h \in Hosts : EngineInitResolves(h)
    \/ \E h \in Hosts : AfterEngineInit(h)
    \/ \E h \in Hosts : PostPoolReady(h)

\* the initialization of the hosts, when the engine and the pool workers make
\* progress and the event loop of the host keeps running
SpecHostInit ==
    /\ Init /\ [][INext]_vars
    /\ \A h \in Hosts : WF_vars(StartWorkers(h))
    /\ \A h \in Hosts, w \in Workers : WF_vars(WorkerPostsReady(h, w))
    /\ \A h \in Hosts, w \in Workers : WF_vars(WorkerReadyHandled(h, w))
    /\ \A h \in Hosts : WF_vars(StartWorkersBuild(h))
    /\ \A h \in Hosts : WF_vars(EngineInitResolves(h))
    /\ \A h \in Hosts : WF_vars(AfterEngineInit(h))
    /\ \A h \in Hosts : WF_vars(PostPoolReady(h))

\* C29: for its initPool message a host emits poolReady exactly once: never more
\* than once, only after every one of its workers has posted its ready message,
\* builder.build() has been called and the engine's initThreadPool has resolved, and
\* (when the engine and the workers make progress) it does emit it.
C29_PoolReadyOnceAfterWorkers ==
    /\ [](\A h \in Hosts : poolReadySent[h] <= 1)
    /\ [](\A h \in Hosts :
            poolReadySent[h] > 0
                => /\ \A w \in Workers : wasmWorkers[h][w] = "done"
                   /\ built[h]
                   /\ engineInit[h] = "resolved")
    /\ [][\A h \in Hosts : built'[h] /\ ~built[h] => AllWorkersReady(h)]_vars
    /\ \A h \in Hosts : (hostPc[h] = "engine") ~> (poolReadySent[h] = 1)

\* C29 witness: a host has posted its poolReady after all its workers were ready and
\* the pool was built, while another host is still waiting for its workers although
\* its engine call has resolved.
C29_Witness ==
    /\ \E h \in Hosts : poolReadySent[h] = 1 /\ hostPc[h] = "posted"
    /\ \E h \in Hosts :
          /\ hostPc[h] = "workers"
          /\ engineInit[h] = "resolved"
          /\ ~built[h]
          /\ \E w \in Workers : wasmWorkers[h][w] # "done"

(***************************************************************************)
(* Part IV: ThreadpoolManager, grace-period variant (unnamed/part_009).     *)
(* A macrotask (a message, an exit event, a timer) runs only when no        *)
(* continuation of a settled promise is waiting.  Heartbeat monitoring and  *)
(* hosts that crash by themselves are the subject of Part II and are not    *)
(* repeated here: a host ends by process.exit(0) on 'terminate' or by       *)
(* worker.terminate().                                                      *)
(***************************************************************************)

\* a continuation of a settled initPromise or exitPromise is queued
gMicrotaskPending ==
    \E c \in Execs :
        \/ gPc[c] = "awaitInit" /\ gInitP[gAwaits[c]] \in {"fulfilled", "rejected"}
        \/ gPc[c] = "awaitExit" /\ gShutdowns[gAwaits[c]].st = "settled"

\* the next Worker that new Worker(...) creates
gFreshHost == CHOOSE h \in Hosts : gHst[h] = "unspawned" /\ \A k \in Hosts : k < h => gHst[k] # "unspawned"

\* the shutdown() calls not yet made, in the table sh
gFreeShutdowns(sh) == {s \in Shutdowns : sh[s].st = "free"}

\* the next shutdown() call of the table sh (0 when the table is full: the actions
\* are guarded so that no call is made then)
gFreshShutdown(sh) ==
    IF gFreeShutdowns(sh) = {} THEN 0
    ELSE CHOOSE s \in gFreeShutdowns(sh) : \A k \in gFreeShutdowns(sh) : s <= k

\* shutdown() called while this.threadPoolHostWorker is w; sets tells whether the caller
\* chained .then(() => poolState = 'none').  With a host, 'terminate' is posted, the
\* once('exit') handler is registered on w and the 2 s timer is armed; without one the
\* call completes at once.
gShutdown(sh, w, sets) ==
    IF gFreeShutdowns(sh) = {} THEN sh
    ELSE [sh EXCEPT ![gFreshShutdown(sh)] =
            IF w = 0 THEN [st |-> "settled", target |-> 0, timer |-> "none", sets |-> sets]
                     ELSE [st |-> "racing", target |-> w, timer |-> "armed", sets |-> sets]]

\* poolState after the .catch of a failed initialization
gStateAfterInitFailure == "none"

\* initThreadPool(): spawn host h, arm the timer of awaitPoolReady; the chained promise
\* becomes this.initPromise
gInitThreadPool(c, h) ==
    /\ gPoolState' = "initializing"
    /\ gThreadPoolHostWorker' = h
    /\ gHst' = [gHst EXCEPT ![h] = "alive"]
    /\ gInitP' = [gInitP EXCEPT ![h] = "pending"]
    /\ gInitTimer' = [gInitTimer EXCEPT ![h] = "armed"]
    /\ gInitPromise' = h
    /\ gPc' = [gPc EXCEPT ![c] = "awaitInit"]
    /\ gAwaits' = [gAwaits EXCEPT ![c] = h]

\* the request of execute call c: lines 192-212 up to the await of the result.  With
\* no host handle postMessage throws and the finally block runs at once.
gSendRequest(c) ==
    LET w == gThreadPoolHostWorker
        last == gPendingRequests = {} /\ gPoolState = "running"
    IN  IF w # 0
        THEN /\ gPendingRequests' = gPendingRequests \cup {c}
             /\ gExecuting' = IF gHst[w] = "alive" THEN [gExecuting EXCEPT ![w] = @ \cup {c}]
                                                   ELSE gExecuting
             /\ gPc' = [gPc EXCEPT ![c] = "request"]
             /\ UNCHANGED <<gPoolState, gShutdowns, gExitPromise>>
        ELSE /\ last => gFreeShutdowns(gShutdowns) # {}
             /\ gPc' = [gPc EXCEPT ![c] = "failed"]
             /\ gPoolState' = IF last THEN "none" ELSE gPoolState
             /\ gShutdowns' = IF last THEN gShutdown(gShutdowns, 0, TRUE) ELSE gShutdowns
             /\ gExitPromise' = IF last THEN gFreshShutdown(gShutdowns) ELSE gExitPromise
             /\ UNCHANGED <<gPendingRequests, gExecuting>>

\* execute(functionName, args), up to its first await (lines 154-197)
gExecute(c) ==
    /\ gThrew = "no"
    /\ ~gMicrotaskPending
    /\ gPc[c] = "idle"
    /\ \A d \in Execs : d < c => gPc[d] # "idle"
    /\ CASE gPoolState = "none" ->
              /\ gInitThreadPool(c, gFreshHost)
              /\ UNCHANGED <<gPendingRequests, gExitPromise, gShutdowns, gExecuting>>
         [] gPoolState = "initializing" ->
              /\ gPc' = [gPc EXCEPT ![c] = "awaitInit"]
              /\ gAwaits' = [gAwaits EXCEPT ![c] = gInitPromise]
              /\ UNCHANGED <<gPoolState, gThreadPoolHostWorker, gPendingRequests, gInitPromise,
                             gExitPromise, gInitP, gInitTimer, gShutdowns, gHst, gExecuting>>
         [] gPoolState = "running" ->
              /\ gSendRequest(c)
              /\ UNCHANGED <<gThreadPoolHostWorker, gInitPromise, gInitP, gInitTimer, gAwaits, gHst>>
         [] gPoolState = "exiting" ->
              /\ gPc' = [gPc EXCEPT ![c] = "awaitExit"]
              /\ gAwaits' = [gAwaits EXCEPT ![c] = gExitPromise]
              /\ UNCHANGED <<gPoolState, gThreadPoolHostWorker, gPendingRequests, gInitPromise,
                             gExitPromise, gInitP, gInitTimer, gShutdowns, gHst, gExecuting>>
    /\ UNCHANGED <<gTerminatePosted, gForced, gThrew>>
    /\ UNCHANGED <<rvars, mvars, ivars, hvars>>

\* execute resumes after `await this.initPromise` (lines 166, 171, 188): a rejection
\* leaves execute, a fulfilment goes on to the request
gAfterAwaitInit(c) ==
    /\ gThrew = "no"
    /\ gPc[c] = "awaitInit"
    /\ gInitP[gAwaits[c]] \in {"fulfilled", "rejected"}
    /\ \A d \in Execs : (d < c /\ gPc[d] = "awaitInit") => gAwaits[d] # gAwaits[c]
    /\ IF gInitP[gAwaits[c]] = "rejected"
       THEN /\ gPc' = [gPc EXCEPT ![c] = "failed"]
            /\ UNCHANGED <<gPoolState, gPendingRequests, gExitPromise, gShutdowns, gExecuting>>
       ELSE gSendRequest(c)
    /\ UNCHANGED <<gThreadPoolHostWorker, gInitPromise, gInitP, gInitTimer, gAwaits, gHst,
                   gTerminatePosted, gForced, gThrew>>
    /\ UNCHANGED <<rvars, mvars, ivars, hvars>>

\* execute resumes after `await this.exitPromise` (lines 180-188)
gAfterAwaitExit(c) ==
    /\ gThrew = "no"
    /\ gPc[c] = "awaitExit"
    /\ gShutdowns[gAwaits[c]].st = "settled"
    /\ \A d \in Execs : (d < c /\ gPc[d] = "awaitExit") => gAwaits[d] # gAwaits[c]
    /\ gInitThreadPool(c, gFreshHost)
    /\ UNCHANGED <<gPendingRequests, gExitPromise, gShutdowns, gExecuting,
                   gTerminatePosted, gForced, gThrew>>
    /\ UNCHANGED <<rvars, mvars, ivars, hvars>>

\* poolReadyHandler (lines 263-269) and the .then of lines 160-162: host h signals
\* poolReady while the handler is attached
gPoolReadyHandler(h) ==
    /\ gThrew = "no"
    /\ ~gMicrotaskPending
    /\ gHst[h] = "alive"
    /\ gInitTimer[h] = "armed"
    /\ gInitTimer' = [gInitTimer EXCEPT ![h] = "cleared"]
    /\ IF gThreadPoolHostWorker = 0
       THEN /\ gThrew' = "poolReady"
            /\ UNCHANGED <<gInitP, gPoolState>>
       ELSE /\ gInitP' = [gInitP EXCEPT ![h] = "fulfilled"]
            /\ gPoolState' = "running"
            /\ UNCHANGED gThrew
    /\ UNCHANGED <<gThreadPoolHostWorker, gPendingRequests, gInitPromise, gExitPromise,
                   gShutdowns, gPc, gAwaits, gHst, gExecuting, gTerminatePosted, gForced>>
    /\ UNCHANGED <<rvars, mvars, ivars, hvars>>

\* the 10 s timer of awaitPoolReady fires (lines 258-261) and the .catch of lines
\* 162-165 runs; this.threadPoolHostWorker.off throws when the handle is null
gInitTimeoutFires(h) ==
    /\ gThrew = "no"
    /\ ~gMicrotaskPending
    /\ gInitTimer[h] = "armed"
    /\ gInitTimer' = [gInitTimer EXCEPT ![h] = "fired"]
    /\ IF gThreadPoolHostWorker = 0
       THEN /\ gThrew' = "initTimeout"
            /\ UNCHANGED <<gInitP, gPoolState>>
       ELSE /\ gInitP' = [gInitP EXCEPT ![h] = "rejected"]
            /\ gPoolState' = gStateAfterInitFailure
            /\ UNCHANGED gThrew
    /\ UNCHANGED <<gThreadPoolHostWorker, gPendingRequests, gInitPromise, gExitPromise,
                   gShutdowns, gPc, gAwaits, gHst, gExecuting, gTerminatePosted, gForced>>
    /\ UNCHANGED <<rvars, mvars, ivars, hvars>>

\* handleWorkerMessage 'result' (lines 224-228) and the finally block of execute
\* (lines 198-212): host h answers request c
gHandleResult(h, c) ==
    /\ gThrew = "no"
    /\ ~gMicrotaskPending
    /\ gHst[h] = "alive"
    /\ c \in gExecuting[h]
    /\ gExecuting' = [gExecuting EXCEPT ![h] = @ \ {c}]
    /\ IF c \notin gPendingRequests
       THEN /\ gThrew' = "result"
            /\ UNCHANGED <<gPoolState, gPendingRequests, gExitPromise, gShutdowns, gPc,
                           gTerminatePosted>>
       ELSE LET w == gThreadPoolHostWorker
                last == gPendingRequests = {c} /\ gPoolState = "running"
            IN  /\ last => gFreeShutdowns(gShutdowns) # {}
                /\ gPendingRequests' = gPendingRequests \ {c}
                /\ gPc' = [gPc EXCEPT ![c] = "done"]
                /\ gPoolState' = IF last THEN (IF w = 0 THEN "none" ELSE "exiting") ELSE gPoolState
                /\ gShutdowns' = IF last THEN gShutdown(gShutdowns, w, TRUE) ELSE gShutdowns
                /\ gExitPromise' = IF last THEN gFreshShutdown(gShutdowns) ELSE gExitPromise
                /\ gTerminatePosted' = IF last /\ w # 0 THEN gTerminatePosted \cup {w}
                                                        ELSE gTerminatePosted
                /\ UNCHANGED gThrew
    /\ UNCHANGED <<gThreadPoolHostWorker, gInitPromise, gInitP, gInitTimer, gAwaits, gHst, gForced>>
    /\ UNCHANGED <<rvars, mvars, ivars, hvars>>

\* The 'exit' event of host h with the given code: the listener of lines 121-126
\* (handleWorkerFailure, lines 239-248, when the code is not 0 and the pool is not
\* exiting), then the once('exit') handlers of the shutdown() calls made on h (lines
\* 306-311), then the finally blocks of the rejected requests and the .then of the
\* completed shutdowns (lines 198-212).
gExitEvent(h, code) ==
    LET failure  == code # 0 /\ gPoolState # "exiting"
        rejected == IF failure THEN gPendingRequests ELSE {}
        w1       == gThreadPoolHostWorker
        sh1      == IF failure /\ w1 # 0 THEN gShutdown(gShutdowns, w1, FALSE) ELSE gShutdowns
        fired    == {s \in Shutdowns : gShutdowns[s].st = "racing" /\ gShutdowns[s].target = h}
        w2       == IF fired # {} THEN 0 ELSE w1
        sh2      == [s \in Shutdowns |-> IF s \in fired THEN [sh1[s] EXCEPT !.st = "settled"]
                                                        ELSE sh1[s]]
        last     == rejected # {} /\ gPoolState = "running"
        ps3      == IF last THEN (IF w2 = 0 THEN "none" ELSE "exiting") ELSE gPoolState
    IN  [ needs       |-> (IF failure /\ w1 # 0 THEN 1 ELSE 0) + (IF last THEN 1 ELSE 0),
          poolState   |-> IF \E s \in fired : gShutdowns[s].sets THEN "none" ELSE ps3,
          worker      |-> w2,
          pending     |-> IF failure THEN {} ELSE gPendingRequests,
          shutdowns   |-> IF last THEN gShutdown(sh2, w2, TRUE) ELSE sh2,
          exitPromise |-> IF last THEN gFreshShutdown(sh2) ELSE gExitPromise,
          pc          |-> [c \in Execs |-> IF c \in rejected THEN "failed" ELSE gPc[c]],
          posted      |-> gTerminatePosted
                             \cup (IF failure /\ w1 # 0 THEN {w1} ELSE {})
                             \cup (IF last /\ w2 # 0 THEN {w2} ELSE {}) ]

\* the host handles 'terminate' and ends with process.exit(0) (part_009 63-65)
gHostExits(h) ==
    /\ gThrew = "no"
    /\ ~gMicrotaskPending
    /\ gHst[h] = "alive"
    /\ h \in gTerminatePosted
    /\ LET ev == gExitEvent(h, 0)
       IN  /\ gPoolState' = ev.poolState
           /\ gThreadPoolHostWorker' = ev.worker
           /\ gPendingRequests' = ev.pending
           /\ gShutdowns' = ev.shutdowns
           /\ gExitPromise' = ev.exitPromise
           /\ gPc' = ev.pc
           /\ gTerminatePosted' = ev.posted
    /\ gHst' = [gHst EXCEPT ![h] = "exited"]
    /\ gExecuting' = [gExecuting EXCEPT ![h] = {}]
    /\ UNCHANGED <<gInitPromise, gInitP, gInitTimer, gAwaits, gForced, gThrew>>
    /\ UNCHANGED <<rvars, mvars, ivars, hvars>>

\* the 2 s timer of shutdown() call s fires (lines 315-322): whatever host
\* this.threadPoolHostWorker names at that moment is ended by worker.terminate(),
\* its 'exit' event (code 1) is delivered, and the handle is set to null
gGraceTimeoutFires(s) ==
    /\ gThrew = "no"
    /\ ~gMicrotaskPending
    /\ gShutdowns[s].timer = "armed"
    /\ LET w  == gThreadPoolHostWorker
           own == gShutdowns[s].st = "racing" /\ gShutdowns[s].sets
       IN  IF w # 0 /\ gHst[w] = "alive"
           THEN LET ev == gExitEvent(w, 1)
                IN  /\ Cardinality(gFreeShutdowns(gShutdowns)) >= ev.needs
                    /\ gPoolState' = IF own THEN "none" ELSE ev.poolState
                    /\ gThreadPoolHostWorker' = 0
                    /\ gPendingRequests' = ev.pending
                    /\ gShutdowns' = [ev.shutdowns EXCEPT ![s].timer = "fired", ![s].st = "settled"]
                    /\ gExitPromise' = ev.exitPromise
                    /\ gPc' = ev.pc
                    /\ gTerminatePosted' = ev.posted
                    /\ gHst' = [gHst EXCEPT ![w] = "exited"]
                    /\ gExecuting' = [gExecuting EXCEPT ![w] = {}]
                    /\ gForced' = gForced \cup {w}
           ELSE /\ gPoolState' = IF own THEN "none" ELSE gPoolState
                /\ gThreadPoolHostWorker' = 0
                /\ gShutdowns' = [gShutdowns EXCEPT ![s].timer = "fired", ![s].st = "settled"]
                /\ UNCHANGED <<gPendingRequests, gExitPromise, gPc, gTerminatePosted, gHst,
                               gExecuting, gForced>>
    /\ UNCHANGED <<gInitPromise, gInitP, gInitTimer, gAwaits, gThrew>>
    /\ UNCHANGED <<rvars, mvars, ivars, hvars>>

GNext ==
    \/ \E c \in Execs : gExecute(c)
    \/ \E c \in Execs : gAfterAwaitInit(c)
    \/ \E c \in Execs : gAfterAwaitExit(c)
    \/ \E h \in Hosts : gPoolReadyHandler(h)
    \/ \E h \in Hosts : gInitTimeoutFires(h)
    \/ \E h \in Hosts : \E c \in Execs : gHandleResult(h, c)
    \/ \E h \in Hosts : gHostExits(h)
    \/ \E s \in Shutdowns : gGraceTimeoutFires(s)

\* the grace-period manager alone
SpecGrace == Init /\ [][GNext]_vars

\* C25: in the grace-period shutdown a host is force-terminated only if it was posted
\* 'terminate' and has not exited when the grace period elapses, and when the shutdown
\* that execute started completes, poolState returns to 'none'.
C25_ForceOnlyAfterGrace ==
    [][ /\ \A h \in Hosts : (h \in gForced' /\ h \notin gForced) =>
               (h \in gTerminatePosted /\ gHst[h] = "alive")
        /\ \A s \in Shutdowns :
               (gShutdowns[s].st = "racing" /\ gShutdowns[s].sets /\ gShutdowns'[s].st = "settled")
                   => gPoolState' = "none" ]_vars

\* C26: when the initialization bound elapses without poolReady, the initialization is
\* rejected and poolState returns to 'none'; every execute call awaiting it is rejected;
\* and an execute call that then finds poolState 'none' starts a fresh initialization.
C26_InitTimeoutFailsInit ==
    [][ /\ \A h \in Hosts : (gInitTimer[h] = "armed" /\ gInitTimer'[h] = "fired") =>
               (gInitP'[h] = "rejected" /\ gPoolState' = "none" /\ gThrew' = "no")
        /\ \A c \in Execs :
               (gPc[c] = "awaitInit" /\ gInitP[gAwaits[c]] = "rejected" /\ gPc'[c] # "awaitInit")
                   => gPc'[c] = "failed"
        /\ \A c \in Execs :
               (gPc[c] = "idle" /\ gPc'[c] # "idle" /\ gPoolState = "none")
                   => (gPoolState' = "initializing" /\ gInitP'[gInitPromise'] = "pending"
                       /\ gInitPromise' # gInitPromise) ]_vars

\* C38: the force-termination scheduled by one shutdown() applies only to the host that
\* this shutdown() posted 'terminate' to: when its grace timer fires, no other host is
\* ended by worker.terminate() and no request is rejected unless it was sent to that host.
C38_GraceTimerOnlyItsHost ==
    [][ \A s \in Shutdowns :
            (gShutdowns[s].timer = "armed" /\ gShutdowns'[s].timer = "fired") =>
                /\ \A h \in Hosts : (gHst[h] = "alive" /\ gHst'[h] = "exited")
                                        => h = gShutdowns[s].target
                /\ \A c \in Execs : (gPc[c] = "request" /\ gPc'[c] = "failed")
                                        => c \in gExecuting[gShutdowns[s].target] ]_vars

\* C37: withThreadPool(run) resolves to the value that run returned, for the runner of
\* workers.cjs and for the runner of threadpool-runner.cjs alike.
C37_ResolvesToRunValue ==
    \A c \in Callers :
        (rpc[c] = "done" /\ rrun[c] = "returned") => (rres[c] = "value" /\ runnerRes[c] = "value")

\* a step in which handleWorkerFailure rejects a request
FailureRejects ==
    \E r \in CallIds : /\ req[r].status = "pending"
                       /\ req'[r].status = "rejected"
                       /\ req'[r].why \in {"timeout", "crash"}

\* C35: handleWorkerFailure rejects every request that is pending at that moment, each
\* once and with the reason of the failure, and leaves the pending map empty; a request
\* that is not in the map then (settled before, or registered later) is not touched by
\* it, and a rejected request is never settled again.
C35_FailAllRejectsPending ==
    [][ /\ FailureRejects =>
              /\ pendingWasmRequests' = {}
              /\ \E why \in {"timeout", "crash"} :
                    \A r \in CallIds :
                        IF r \in pendingWasmRequests /\ req[r].status = "pending"
                          THEN req'[r] = [req[r] EXCEPT !.status = "rejected", !.why = why]
                          ELSE req'[r] = req[r]
        /\ \A r \in CallIds : req[r].status = "rejected" => req'[r] = req[r] ]_vars

\* a failure has rejected two requests that were pending together
C35_Witness ==
    /\ pendingWasmRequests = {}
    /\ \E r, q \in CallIds : /\ r # q
                             /\ req[r].status = "rejected" /\ req[q].status = "rejected"
                             /\ req[r].why = req[q].why /\ req[r].why \in {"timeout", "crash"}

\* C36: without a failure, poolState changes only along none -> initializing,
\* initializing -> running, initializing -> none, running -> exiting and exiting -> none:
\* a caller that finishes does not move it from 'initializing' or 'none' to 'exiting',
\* and the end of a teardown does not move it from 'initializing' or 'running' to 'none'.
C36_LifecycleEdges ==
    [][ poolState' # poolState =>
            <<poolState, poolState'>> \in { <<"none", "initializing">>,
                                            <<"initializing", "running">>,
                                            <<"initializing", "none">>,
                                            <<"running", "exiting">>,
                                            <<"exiting", "none">> } ]_vars

\* C39: the manager posts at most one 'terminate' message to each host it spawned.
C39_OneTerminatePerHost == \A h \in Hosts : terminatesPosted[h] <= 1

\* C34: the host receives one port per pool worker, all of different channels, and
\* hands port index i to worker i only: every spawned worker holds exactly one channel
\* endpoint, the one of its index, and no two workers of a host hold the same one.
C34_OnePortPerWorker ==
    \A h \in Hosts :
        /\ workerPorts[h] # <<>> =>
              /\ Len(workerPorts[h]) = NumWorkers
              /\ \A i, j \in 1..NumWorkers : i # j => workerPorts[h][i] # workerPorts[h][j]
        /\ \A w \in Workers :
              IF wasmWorkers[h][w] = "unspawned"
                THEN mainThreadPort[h][w] = 0
                ELSE mainThreadPort[h][w] = workerPorts[h][w]
        /\ \A w, v \in Workers :
              (w # v /\ wasmWorkers[h][w] # "unspawned" /\ wasmWorkers[h][v] # "unspawned")
                  => mainThreadPort[h][w] # mainThreadPort[h][v]

\* a host has spawned all its workers, each with the port of its own index
C34_Witness ==
    \E h \in Hosts :
        /\ \A w \in Workers : wasmWorkers[h][w] # "unspawned" /\ mainThreadPort[h][w] = w
        /\ \E w, v \in Workers : w # v

(***************************************************************************)
(* Part V: the ThreadPoolHost after its first 'initPool' (patch-env.js      *)
(* 60-63 and 71-104) and its pool workers after their ready message         *)
(* (threadpool-worker.cjs 13-28).  The hosts do not interact: one is        *)
(* followed.                                                                *)
(***************************************************************************)

\* the host that is followed
OneHost == {1}

\* case 'initPool' for a message that arrives while the handling of an earlier one
\* has not posted its poolReady: the handler has no guard, it stores the new ports,
\* replaces workersReadyResolve and calls wasm.initThreadPool again.  What the engine
\* makes of the second call is not followed
HostInitPoolAgain(h) ==
    /\ hostPc[h] \in {"engine", "workers"}
    /\ termPc[h] = "none"
    /\ engineInitCalls[h] < 2
    /\ workerPorts' = [workerPorts EXCEPT ![h] = PortArray(NumWorkers + 1)]
    /\ workersReadyResolve' = [workersReadyResolve EXCEPT ![h] = 2]
    /\ engineInitCalls' = [engineInitCalls EXCEPT ![h] = @ + 1]
    /\ UNCHANGED <<mainThreadPort, workerPc, workerPosts, termPc, engineExit, heartbeatsPosted>>
    /\ UNCHANGED <<rvars, mvars, ivars, gvars>>

\* a worker that posts worker_panic whether or not the attach call threw
PanicPostedAlways(o) == <<[port |-> "mainThreadPort", type |-> "worker_panic"]>>

\* threadpool-worker.cjs, try/catch around wbg_rayon_start_worker: what the worker
\* posts when the call ends with outcome o
PanicPosted(o) ==
    IF o = "threw" THEN <<[port |-> "mainThreadPort", type |-> "worker_panic"]>> ELSE <<>>

\* the worker, having posted its ready message, calls wasm.wbg_rayon_start_worker
WorkerAttach(h, w) ==
    /\ termPc[h] # "exited"
    /\ wasmWorkers[h][w] \in {"readySent", "done"}
    /\ workerPc[h][w] = "none"
    /\ workerPc' = [workerPc EXCEPT ![h][w] = "rayon"]
    /\ UNCHANGED <<workerPorts, mainThreadPort, workersReadyResolve, engineInitCalls,
                   workerPosts, termPc, engineExit, heartbeatsPosted>>
    /\ UNCHANGED <<rvars, mvars, ivars, gvars>>

\* wbg_rayon_start_worker ends, by throwing or by returning; the script then ends
WorkerAttachEnds(h, w, o) ==
    /\ termPc[h] # "exited"
    /\ workerPc[h][w] = "rayon"
    /\ workerPosts' = [workerPosts EXCEPT ![h][w] = @ \o PanicPosted(o)]
    /\ workerPc' = [workerPc EXCEPT ![h][w] = IF o = "threw" THEN "panicked" ELSE "returned"]
    /\ UNCHANGED <<workerPorts, mainThreadPort, workersReadyResolve, engineInitCalls,
                   termPc, engineExit, heartbeatsPosted>>
    /\ UNCHANGED <<rvars, mvars, ivars, gvars>>

\* case 'terminate', up to `await wasm.exitThreadPool()`
HostTerminate(h) ==
    /\ termPc[h] = "none"
    /\ hostPc[h] # "idle"
    /\ termPc' = [termPc EXCEPT ![h] = "exiting"]
    /\ engineExit' = [engineExit EXCEPT ![h] = "called"]
    /\ UNCHANGED <<workerPorts, mainThreadPort, workersReadyResolve, engineInitCalls, workerPc,
                   workerPosts, heartbeatsPosted>>
    /\ UNCHANGED <<rvars, mvars, ivars, gvars>>

\* the promise of wasm.exitThreadPool() resolves
EngineExitResolves(h) ==
    /\ engineExit[h] = "called"
    /\ engineExit' = [engineExit EXCEPT ![h] = "resolved"]
    /\ UNCHANGED <<workerPorts, mainThreadPort, workersReadyResolve, engineInitCalls, workerPc,
                   workerPosts, termPc, heartbeatsPosted>>
    /\ UNCHANGED <<rvars, mvars, ivars, gvars>>

\* case 'terminate', after the await: process.exit(0)
HostProcessExit(h) ==
    /\ termPc[h] = "exiting"
    /\ engineExit[h] = "resolved"
    /\ termPc' = [termPc EXCEPT ![h] = "exited"]
    /\ UNCHANGED <<workerPorts, mainThreadPort, workersReadyResolve, engineInitCalls, workerPc,
                   workerPosts, engineExit, heartbeatsPosted>>
    /\ UNCHANGED <<rvars, mvars, ivars, gvars>>

\* the interval of lines 60-63 fires: its handle is not kept and nothing clears it, so
\* it fires whenever the event loop of the host turns, until the process exits
HostHeartbeat(h) ==
    /\ termPc[h] # "exited"
    /\ heartbeatsPosted[h] < MaxHeartbeats
    /\ heartbeatsPosted' = [heartbeatsPosted EXCEPT ![h] = @ + 1]
    /\ UNCHANGED <<workerPorts, mainThreadPort, workersReadyResolve, engineInitCalls, workerPc,
                   workerPosts, termPc, engineExit>>
    /\ UNCHANGED <<rvars, mvars, ivars, gvars>>

\* process.exit(0) ends the host and the workers it spawned: each action is guarded
\* by the host not having exited
HNext ==
    \/ \E h \in OneHost : HostInitPool(h)
    \/ \E h \in OneHost : HostInitPoolAgain(h)
    \/ \E h \in OneHost : StartWorkers(h)
    \/ \E h \in OneHost, w \in Workers : WorkerPostsReady(h, w)
    \/ \E h \in OneHost, w \in Workers : WorkerReadyHandled(h, w)
    \/ \E h \in OneHost : StartWorkersBuild(h)
    \/ \E h \in OneHost : EngineInitResolves(h)
    \/ \E h \in OneHost : AfterEngineInit(h)
    \/ \E h \in OneHost : PostPoolReady(h)
    \/ \E h \in OneHost, w \in Workers : WorkerAttach(h, w)
    \/ \E h \in OneHost, w \in Workers, o \in {"threw", "returned"} : WorkerAttachEnds(h, w, o)
    \/ \E h \in OneHost : HostTerminate(h)
    \/ \E h \in OneHost : EngineExitResolves(h)
    \/ \E h \in OneHost : HostProcessExit(h)
    \/ \E h \in OneHost : HostHeartbeat(h)

\* one host from its 'initPool' to its exit
SpecHostLife == Init /\ [][HNext]_vars

\* ---------------------------------------------------------------------------
\* Claims about the life of one host (SpecHostLife)

\* C31: on 'terminate' the host stops its heartbeats, calls the engine's exitThreadPool
\* and then exits, in that order: no heartbeat is posted once the host has begun to
\* handle 'terminate', beginning to handle it calls exitThreadPool, and the host does
\* not exit before exitThreadPool has resolved
C31_TerminateOrder ==
    [][\A h \in Hosts :
        /\ (heartbeatsPosted'[h] # heartbeatsPosted[h] => termPc[h] = "none")
        /\ ((termPc[h] = "none" /\ termPc'[h] # "none") => engineExit'[h] = "called")
        /\ ((termPc[h] # "exited" /\ termPc'[h] = "exited") => engineExit[h] = "resolved")]_vars

\* C32: an 'initPool' received while an earlier one is in flight (before its
\* 'poolReady') does not overwrite workerPorts or workersReadyResolve and does not
\* start a second engine initThreadPool call
C32_NoConcurrentInit ==
    [][\A h \in Hosts :
        hostPc[h] \in {"engine", "workers"} =>
            /\ workerPorts'[h] = workerPorts[h]
            /\ workersReadyResolve'[h] = workersReadyResolve[h]
            /\ engineInitCalls'[h] = engineInitCalls[h]]_vars

\* the two messages a compute worker can post, by the port they are posted on
ReadyMessage == [port |-> "parentPort", type |-> "wasm_bindgen_worker_ready"]

PanicMessage == [port |-> "mainThreadPort", type |-> "worker_panic"]

\* C33: a worker whose attach call threw has posted exactly one worker_panic, on its
\* own channel to the manager and after its ready message to the host, and has ended;
\* a worker whose attach call has not thrown has posted no worker_panic
C33_PanicOnOwnChannel ==
    \A h \in Hosts, w \in Workers :
        IF workerPc[h][w] = "panicked"
        THEN workerPosts[h][w] = <<ReadyMessage, PanicMessage>>
        ELSE \A i \in 1..Len(workerPosts[h][w]) : workerPosts[h][w][i].type # "worker_panic"

C33_Witness ==
    \E h \in Hosts : \E w1, w2 \in Workers :
        /\ workerPc[h][w1] = "panicked"
        /\ workerPc[h][w2] = "returned"
        /\ workerPosts[h][w2] = <<ReadyMessage>>

====
